---- MODULE Spec2Model ----
(***************************************************************************)
(* notification-service: the webhook handlers handle_pr_opened and         *)
(* handle_recovery_complete, the notification-bundle validator, and the    *)
(* store they share (notification_events, jira_tickets), as a state        *)
(* machine.  Each request owns one database session; a handler advances    *)
(* from await to await.                                                    *)
(***************************************************************************)
EXTENDS Integers, Sequences, FiniteSets, TLC

(* ---------------------------------------------------------------- bounds *)
MaxJob == 2
MaxChange == 1
MaxStorageFailures == 1
MaxSessions == 2

Jobs == 1..MaxJob
Changes == 1..MaxChange
Sessions == 1..MaxSessions

(* ------------------------------------------------------- Python values   *)
\* Optional values are sequences: None is <<>>, a value x is <<x>>.
None == <<>>
Some(x) == <<x>>

\* Strings that the code parses are sequences of tokens.  A token is a run of
\* characters the code never splits: a host prefix, "/", ".git", " " or a name.
HostTokens == {"https://github.com/", "http://github.com/", "github.com/"}

\* str.count("/") of one token.
SlashCount(tok) ==
    CASE tok = "https://github.com/" -> 3
      [] tok = "http://github.com/" -> 3
      [] tok = "https://github.com" -> 2
      [] tok = "http://github.com" -> 2
      [] tok = "github.com/" -> 1
      [] tok = "/" -> 1
      [] OTHER -> 0

RECURSIVE CountSlashes(_)
CountSlashes(s) ==
    IF s = <<>> THEN 0 ELSE SlashCount(s[1]) + CountSlashes(Tail(s))

RECURSIVE LStrip(_)
LStrip(s) == IF s # <<>> /\ s[1] = " " THEN LStrip(Tail(s)) ELSE s

RECURSIVE RStrip(_)
RStrip(s) ==
    IF s # <<>> /\ s[Len(s)] = " " THEN RStrip(SubSeq(s, 1, Len(s) - 1)) ELSE s

\* str.strip()
Strip(s) == LStrip(RStrip(s))

\* str.rstrip("/"): a host prefix ends in "/" and loses it.
RECURSIVE RStripSlash(_)
RStripSlash(s) ==
    IF s = <<>> THEN s
    ELSE LET last == s[Len(s)]
             init == SubSeq(s, 1, Len(s) - 1)
         IN  CASE last = "/" -> RStripSlash(init)
               [] last = "https://github.com/" -> Append(init, "https://github.com")
               [] last = "http://github.com/" -> Append(init, "http://github.com")
               [] last = "github.com/" -> Append(init, "github.com")
               [] OTHER -> s

\* str.removesuffix(".git")
RemoveSuffixGit(s) ==
    IF s # <<>> /\ s[Len(s)] = ".git" THEN SubSeq(s, 1, Len(s) - 1) ELSE s

\* str.replace("http://", "https://", 1) on a value that starts with a host prefix.
ReplaceHttp(s) ==
    IF s = <<>> THEN s
    ELSE CASE s[1] = "http://github.com/" -> <<"https://github.com/">> \o Tail(s)
           [] s[1] = "http://github.com" -> <<"https://github.com">> \o Tail(s)
           [] OTHER -> s

\* "https://" + value, for a value that starts with "github.com/".
PrependHttps(s) ==
    CASE s[1] = "github.com/" -> <<"https://github.com/">> \o Tail(s)
      [] s[1] = "github.com" -> <<"https://github.com">> \o Tail(s)
      [] OTHER -> <<"https://">> \o s

HasSpace(s) == \E i \in 1..Len(s) : s[i] = " "

\* _normalize_repo_url: None (<<>>) or the canonical URL.
_normalize_repo_url(raw) ==
    LET value == Strip(raw)
    IN  IF raw = <<>> \/ value = <<>> THEN None
        ELSE IF value[1] \in {"https://github.com/", "http://github.com/"}
             THEN ReplaceHttp(RemoveSuffixGit(RStripSlash(value)))
        ELSE IF value[1] = "github.com/"
             THEN PrependHttps(RemoveSuffixGit(RStripSlash(value)))
        ELSE IF CountSlashes(value) = 1 /\ ~HasSpace(value)
             THEN <<"https://github.com/">> \o RemoveSuffixGit(RStripSlash(value))
        ELSE value

\* The index of the first token that contains "github.com/", or 0.
RECURSIVE FirstHost(_, _)
FirstHost(s, i) ==
    IF i > Len(s) THEN 0
    ELSE IF s[i] \in HostTokens THEN i ELSE FirstHost(s, i + 1)

\* str.split("/") of a host-free tail: the segments between "/" tokens.
RECURSIVE SplitSlash(_, _)
SplitSlash(s, cur) ==
    IF s = <<>> THEN <<cur>>
    ELSE IF s[1] = "/" THEN <<cur>> \o SplitSlash(Tail(s), <<>>)
    ELSE SplitSlash(Tail(s), Append(cur, s[1]))

\* _repo_from_pr_url
_repo_from_pr_url(pr_url) ==
    LET h == FirstHost(pr_url, 1)
    IN  IF pr_url = <<>> \/ h = 0 THEN None
        ELSE LET parts == SplitSlash(SubSeq(pr_url, h + 1, Len(pr_url)), <<>>)
             IN  IF Len(parts) < 2 THEN None
                 ELSE <<"https://github.com/">> \o parts[1] \o <<"/">> \o parts[2]

\* The tokens after the last "/" character of s.
RECURSIVE LastSegment(_)
LastSegment(s) ==
    IF s = <<>> THEN <<>>
    ELSE IF s[Len(s)] \in HostTokens \cup {"/"} THEN <<>>
    ELSE IF SlashCount(s[Len(s)]) > 0 THEN <<"github.com">>
    ELSE Append(LastSegment(SubSeq(s, 1, Len(s) - 1)), s[Len(s)])

\* _repo_name
_repo_name(raw) ==
    IF raw = <<>> THEN <<>>
    ELSE LET normalized == _normalize_repo_url(raw)
         IN  LastSegment(RStripSlash(IF normalized # <<>> THEN normalized ELSE raw))

\* str.lower() of one token.
LowerTok(tok) ==
    CASE tok = "Devin" -> "devin"
      [] tok = "DEVIN" -> "devin"
      [] OTHER -> tok

Lower(s) == [i \in 1..Len(s) |-> LowerTok(s[i])]

\* x or y, for strings.
Or(x, y) == IF x # <<>> THEN x ELSE y

(* ------------------------------------------------------------- payloads  *)
SourceRepo == <<"https://github.com/", "acme", "/", "api-core">>
TargetRepo == <<"https://github.com/", "acme", "/", "billing">>
OtherRepo == <<"https://github.com/", "acme", "/", "dashboard">>
TargetService == <<"billing">>
PrUrl == TargetRepo \o <<"/", "pull", "/", "1">>

\* NotificationAssertions, NotificationJiraBundle, NotificationSlackBundle,
\* NotificationBundle (schemas/events.py).
NotificationBundle(author, source_repo, target_repo, target_service, pr_url, description_text, description_adf, text, blocks) ==
    [author |-> author,
     assertions |-> [source_repo |-> source_repo, target_repo |-> target_repo,
                     target_service |-> target_service, pr_url |-> pr_url],
     jira |-> [description_text |-> description_text,
               description_adf |-> description_adf],
     slack |-> [text |-> text, blocks |-> blocks]]

\* The bundles a pr_opened webhook is submitted with: content c, by kind.
BundleKinds == {"valid", "target_mismatch", "no_description", "no_slack"}

BundleOf(kind, c) ==
    CASE kind = "valid" ->
           NotificationBundle(<<"devin">>, SourceRepo, TargetRepo, TargetService,
                              PrUrl, <<c>>, None, <<c>>, <<>>)
      [] kind = "target_mismatch" ->
           NotificationBundle(<<"devin">>, SourceRepo, OtherRepo, TargetService,
                              PrUrl, <<c>>, None, <<c>>, <<>>)
      [] kind = "no_description" ->
           NotificationBundle(<<"devin">>, SourceRepo, TargetRepo, TargetService,
                              PrUrl, <<>>, None, <<c>>, <<>>)
      [] kind = "no_slack" ->
           NotificationBundle(<<"devin">>, SourceRepo, TargetRepo, TargetService,
                              PrUrl, <<c>>, None, <<>>, <<>>)

\* PROpenedEvent
PROpenedEvent(change_id, job_id, bundle) ==
    [event_type |-> "pr_opened", change_id |-> change_id, job_id |-> job_id,
     source_repo |-> SourceRepo, target_repo |-> TargetRepo,
     target_service |-> TargetService, pr_url |-> PrUrl,
     notification_bundle |-> bundle]

\* RecoveryCompleteEvent
RecoveryCompleteEvent(change_id) ==
    [event_type |-> "recovery_complete", change_id |-> change_id, job_id |-> 0,
     source_repo |-> SourceRepo, target_repo |-> <<>>,
     target_service |-> <<>>, pr_url |-> <<>>,
     notification_bundle |-> None]

Contents == {"c1"}

\* The pr_opened payloads with a bundle of one of the given kinds ("none": no
\* bundle).
PrEvents(kinds) ==
    {PROpenedEvent(c, j, b) :
        c \in Changes, j \in Jobs,
        b \in {None : k \in kinds \cap {"none"}}
              \cup {Some(BundleOf(k, t)) : k \in kinds \cap BundleKinds, t \in Contents}}

RcEvents == {RecoveryCompleteEvent(c) : c \in Changes}

\* Other values of the fields the validator compares: a repository of the same
\* name under another owner, another spelling of a repository URL, a padded
\* string, another pull request.
OtherOwner(repo) == <<"https://github.com/", "evil", "/", repo[Len(repo)]>>
Respelled(repo) == <<"http://github.com/">> \o Tail(repo) \o <<".git", "/">>
Padded(x) == <<" ">> \o x \o <<" ">>
OtherPrUrl == TargetRepo \o <<"/", "pull", "/", "2">>

\* The pr_opened events the validator is run on, by the shape of their own
\* fields: the PR URL inside the target repo, inside another repo, without the
\* host marker, with the owner alone (and with a trailing slash); the target
\* repo in its short form; the source repo as the schema defaults it.
EventKinds ==
    {"consistent", "other_repo_pr", "no_host", "owner_only", "owner_slash",
     "short_target", "default_source"}

EventOf(kind, bundle) ==
    LET e == PROpenedEvent(1, 1, bundle)
    IN  CASE kind = "consistent" -> e
          [] kind = "other_repo_pr" ->
               [e EXCEPT !.pr_url = OtherRepo \o <<"/", "pull", "/", "1">>]
          [] kind = "no_host" ->
               [e EXCEPT !.pr_url = <<"https://gitlab.example/", "acme", "/",
                                      "billing", "/", "pull", "/", "1">>]
          [] kind = "owner_only" -> [e EXCEPT !.pr_url = <<"https://github.com/", "acme">>]
          [] kind = "owner_slash" ->
               [e EXCEPT !.pr_url = <<"https://github.com/", "acme", "/">>]
          [] kind = "short_target" -> [e EXCEPT !.target_repo = <<"acme", "/", "billing">>]
          [] kind = "default_source" ->
               [e EXCEPT !.source_repo = <<"api-core">>,
                         !.target_service = <<"billing", " ">>]

Authors == {<<>>, <<"devin">>, <<" ", "Devin", " ">>, <<" ">>, <<"alice">>}

\* The bundles that differ in what they assert about the event e: written by
\* devin with every combination of assertions, and by every author with
\* assertions left out or equal to the event's fields.
AssertionBundles(e) ==
    {NotificationBundle(<<"devin">>, src, tgt, svc, pr, <<"c1">>, None, <<"c1">>, <<>>) :
        src \in {<<>>, e.source_repo, OtherOwner(SourceRepo), OtherRepo},
        tgt \in {<<>>, e.target_repo, OtherOwner(TargetRepo), Respelled(TargetRepo),
                 OtherRepo},
        svc \in {<<>>, e.target_service, <<"payments">>},
        pr \in {<<>>, e.pr_url, Padded(e.pr_url), OtherPrUrl}}
    \cup
    {NotificationBundle(a, src, tgt, svc, pr, <<"c1">>, None, <<"c1">>, <<>>) :
        a \in Authors,
        src \in {<<>>, e.source_repo}, tgt \in {<<>>, e.target_repo},
        svc \in {<<>>, e.target_service}, pr \in {<<>>, e.pr_url, OtherPrUrl}}

\* The bundles that differ in the content they carry: asserting nothing,
\* asserting another target repo, or written by another author.
ContentBundles ==
    {NotificationBundle(a, <<>>, tgt, <<>>, <<>>, d, adf, t, blocks) :
        a \in {<<"devin">>, <<"alice">>}, tgt \in {<<>>, OtherRepo},
        d \in {<<>>, <<"c1">>}, adf \in {None, Some("adf")},
        t \in {<<>>, <<"c1">>}, blocks \in {<<>>, <<"block">>}}

\* The inputs of the validator: an event and the bundle it carries.
ValidatorInputs ==
    UNION {{EventOf(k, Some(b)) : b \in AssertionBundles(EventOf(k, None))} :
              k \in EventKinds}
    \cup {EventOf(k, Some(b)) : k \in {"consistent", "other_repo_pr"}, b \in ContentBundles}
    \cup {EventOf(k, None) : k \in EventKinds}

(* ------------------------------------------------------ bundle validator *)
\* The validator without its comparison of the asserted target repo.
_validate_notification_bundle_NoTargetRepoCheck(event, bundle) ==
    IF bundle = None THEN None
    ELSE
    LET b == bundle[1]
        author == Lower(Strip(b.author))
        asserted_source == Or(b.assertions.source_repo, event.source_repo)
        asserted_target_service == Or(b.assertions.target_service, event.target_service)
        asserted_pr_url == Or(b.assertions.pr_url, event.pr_url)
        pr_repo == _repo_from_pr_url(event.pr_url)
    IN  IF author # <<>> /\ author # <<"devin">> THEN None
        ELSE IF _repo_name(asserted_source) # _repo_name(event.source_repo) THEN None
        ELSE IF Strip(asserted_target_service) # Strip(event.target_service) THEN None
        ELSE IF Strip(asserted_pr_url) # Strip(event.pr_url) THEN None
        ELSE IF pr_repo # None
                /\ _normalize_repo_url(pr_repo) # _normalize_repo_url(event.target_repo)
             THEN None
        ELSE bundle

\* The validator without its comparison of the asserted PR URL.
_validate_notification_bundle_NoPrUrlCheck(event, bundle) ==
    IF bundle = None THEN None
    ELSE
    LET b == bundle[1]
        author == Lower(Strip(b.author))
        asserted_source == Or(b.assertions.source_repo, event.source_repo)
        asserted_target_repo == Or(b.assertions.target_repo, event.target_repo)
        asserted_target_service == Or(b.assertions.target_service, event.target_service)
        pr_repo == _repo_from_pr_url(event.pr_url)
    IN  IF author # <<>> /\ author # <<"devin">> THEN None
        ELSE IF _repo_name(asserted_source) # _repo_name(event.source_repo) THEN None
        ELSE IF _normalize_repo_url(asserted_target_repo)
                    # _normalize_repo_url(event.target_repo) THEN None
        ELSE IF Strip(asserted_target_service) # Strip(event.target_service) THEN None
        ELSE IF pr_repo # None
                /\ _normalize_repo_url(pr_repo) # _normalize_repo_url(event.target_repo)
             THEN None
        ELSE bundle

\* The validator comparing the target repos by their short names.
_validate_notification_bundle_TargetByName(event, bundle) ==
    IF bundle = None THEN None
    ELSE
    LET b == bundle[1]
        author == Lower(Strip(b.author))
        asserted_source == Or(b.assertions.source_repo, event.source_repo)
        asserted_target_repo == Or(b.assertions.target_repo, event.target_repo)
        asserted_target_service == Or(b.assertions.target_service, event.target_service)
        asserted_pr_url == Or(b.assertions.pr_url, event.pr_url)
        pr_repo == _repo_from_pr_url(event.pr_url)
    IN  IF author # <<>> /\ author # <<"devin">> THEN None
        ELSE IF _repo_name(asserted_source) # _repo_name(event.source_repo) THEN None
        ELSE IF _repo_name(asserted_target_repo) # _repo_name(event.target_repo) THEN None
        ELSE IF Strip(asserted_target_service) # Strip(event.target_service) THEN None
        ELSE IF Strip(asserted_pr_url) # Strip(event.pr_url) THEN None
        ELSE IF pr_repo # None
                /\ _normalize_repo_url(pr_repo) # _normalize_repo_url(event.target_repo)
             THEN None
        ELSE bundle

\* The validator comparing the assertions as given, left-out ones included.
_validate_notification_bundle_NoFallback(event, bundle) ==
    IF bundle = None THEN None
    ELSE
    LET b == bundle[1]
        author == Lower(Strip(b.author))
        asserted_source == b.assertions.source_repo
        asserted_target_repo == b.assertions.target_repo
        asserted_target_service == b.assertions.target_service
        asserted_pr_url == b.assertions.pr_url
        pr_repo == _repo_from_pr_url(event.pr_url)
    IN  IF author # <<>> /\ author # <<"devin">> THEN None
        ELSE IF _repo_name(asserted_source) # _repo_name(event.source_repo) THEN None
        ELSE IF _normalize_repo_url(asserted_target_repo)
                    # _normalize_repo_url(event.target_repo) THEN None
        ELSE IF Strip(asserted_target_service) # Strip(event.target_service) THEN None
        ELSE IF Strip(asserted_pr_url) # Strip(event.pr_url) THEN None
        ELSE IF pr_repo # None
                /\ _normalize_repo_url(pr_repo) # _normalize_repo_url(event.target_repo)
             THEN None
        ELSE bundle

\* The validator without its look at the repo inside the event's PR URL.
_validate_notification_bundle_NoPrRepoCheck(event, bundle) ==
    IF bundle = None THEN None
    ELSE
    LET b == bundle[1]
        author == Lower(Strip(b.author))
        asserted_source == Or(b.assertions.source_repo, event.source_repo)
        asserted_target_repo == Or(b.assertions.target_repo, event.target_repo)
        asserted_target_service == Or(b.assertions.target_service, event.target_service)
        asserted_pr_url == Or(b.assertions.pr_url, event.pr_url)
    IN  IF author # <<>> /\ author # <<"devin">> THEN None
        ELSE IF _repo_name(asserted_source) # _repo_name(event.source_repo) THEN None
        ELSE IF _normalize_repo_url(asserted_target_repo)
                    # _normalize_repo_url(event.target_repo) THEN None
        ELSE IF Strip(asserted_target_service) # Strip(event.target_service) THEN None
        ELSE IF Strip(asserted_pr_url) # Strip(event.pr_url) THEN None
        ELSE bundle

\* _validate_notification_bundle: the bundle (Some) if every check passes.
_validate_notification_bundle(event, bundle) ==
    IF bundle = None THEN None
    ELSE
    LET b == bundle[1]
        author == Lower(Strip(b.author))
        asserted_source == Or(b.assertions.source_repo, event.source_repo)
        asserted_target_repo == Or(b.assertions.target_repo, event.target_repo)
        asserted_target_service == Or(b.assertions.target_service, event.target_service)
        asserted_pr_url == Or(b.assertions.pr_url, event.pr_url)
        pr_repo == _repo_from_pr_url(event.pr_url)
    IN  IF author # <<>> /\ author # <<"devin">> THEN None
        ELSE IF _repo_name(asserted_source) # _repo_name(event.source_repo) THEN None
        ELSE IF _normalize_repo_url(asserted_target_repo)
                    # _normalize_repo_url(event.target_repo) THEN None
        ELSE IF Strip(asserted_target_service) # Strip(event.target_service) THEN None
        ELSE IF Strip(asserted_pr_url) # Strip(event.pr_url) THEN None
        ELSE IF pr_repo # None
                /\ _normalize_repo_url(pr_repo) # _normalize_repo_url(event.target_repo)
             THEN None
        ELSE bundle

\* The content guard without its look at the description.
_has_devin_jira_content_AnyBundle(bundle) == bundle # None

\* _has_devin_jira_content
_has_devin_jira_content(bundle) ==
    bundle # None
    /\ (bundle[1].jira.description_text # <<>> \/ bundle[1].jira.description_adf # None)

\* Exception messages: Msg(text, len) is the first len characters of text.
Msg(text, len) == [text |-> text, len |-> len]

\* _jira_bundle_error
_jira_bundle_error(event, bundle) ==
    IF event.notification_bundle = None
    THEN Msg("missing Devin-authored notification bundle", 42)
    ELSE IF bundle = None
    THEN Msg("invalid Devin-authored notification bundle", 42)
    ELSE Msg("missing Devin-authored Jira description in notification bundle", 62)

\* The content guard of the chat branch looking at the text alone.
_has_devin_slack_content_TextOnly(bundle) ==
    bundle # None /\ bundle[1].slack.text # <<>>

\* _has_devin_slack_content
_has_devin_slack_content(bundle) ==
    bundle # None
    /\ (bundle[1].slack.text # <<>> \/ bundle[1].slack.blocks # <<>>)

ErrorCap == 500

\* The error text stored whole.
Truncate_Whole(msg) == msg

\* str(exc)[:500]
Truncate(msg) == Msg(msg.text, IF msg.len > ErrorCap THEN ErrorCap ELSE msg.len)

\* f"jira: {exc}", f"slack: {exc}", f"jira_comment:{key}: {exc}"
ErrorEntry(sink, ticket, msg) == [sink |-> sink, ticket |-> ticket, msg |-> msg]

\* The messages of the exceptions the sinks raise.
SinkErrors == {Msg("unreachable", 11)}

\* Messages around the cap of the stored error texts.
LongErrors == {Msg("below", 499), Msg("at", 500), Msg("above", 501), Msg("far above", 1200)}
JiraNotConfigured == Msg("Jira not configured", 70)
SlackNotConfigured == Msg("Slack not configured", 72)
CloseError == Msg("close failed", 12)

(* ----------------------------------------------------------------- state *)
VARIABLES
    settings,             \* config.Settings: what is configured
    notification_events,  \* committed NotificationEvent rows
    jira_tickets,         \* committed JiraTicket rows, in row order
    sess,                 \* per database session: the handler running in it
    create_issue_calls,   \* Jira: create_issue requests received, per job
    send_message_calls,   \* Slack: send_message calls made, per key
    storage_failures,     \* commits the storage layer has refused
    workload              \* what the clients and the sinks do in this run

vars == <<settings, notification_events, jira_tickets, sess, create_issue_calls,
          send_message_calls, storage_failures, workload>>

\* The key of a pr_opened event made from its change id.
IdemKey_ByChangeId(event) ==
    IF event.event_type = "pr_opened"
    THEN <<"pr_opened", event.change_id>>
    ELSE <<"recovery_complete", event.change_id>>

\* f"pr_opened:{event.job_id}", f"recovery_complete:{event.change_id}"
IdemKey(event) ==
    IF event.event_type = "pr_opened"
    THEN <<"pr_opened", event.job_id>>
    ELSE <<"recovery_complete", event.change_id>>

Keys == {<<"pr_opened", j>> : j \in Jobs} \cup {<<"recovery_complete", c>> : c \in Changes}

\* A session with no request in it.
IdleSession ==
    [pc |-> "idle", event |-> None, record |-> None, added |-> <<>>,
     jira_issue_key |-> None, jira_issue_url |-> None,
     billing_summary |-> None, validated_bundle |-> None, raced |-> FALSE,
     errors |-> <<>>, calls |-> <<>>, response |-> None]

\* NotificationEvent(...) with the column defaults.
NotificationEvent(event) ==
    [idempotency_key |-> IdemKey(event), event_type |-> event.event_type,
     change_id |-> event.change_id, job_id |-> event.job_id,
     jira_sent |-> FALSE, jira_error |-> None,
     slack_sent |-> FALSE, slack_error |-> None]

\* JiraTicket(...)
JiraTicket(change_id, job_id, key, url) ==
    [change_id |-> change_id, job_id |-> job_id,
     jira_issue_key |-> key, jira_issue_url |-> url]

\* WebhookResponse(...)
WebhookResponse(status, key, url, slack_sent, errors) ==
    [status |-> status, jira_issue_key |-> key, jira_issue_url |-> url,
     slack_sent |-> slack_sent, errors |-> errors]

\* JiraClient.browse_url
browse_url(issue_key) == <<"/browse/", issue_key>>

\* The requests not yet answered: their sessions are open.
InFlight == {s \in Sessions : sess[s].pc # "idle"}

\* Settings as deployed: the sinks and api-core configured or not, the database
\* SQLite (one writer at a time) or a server with row-level conflicts.
SettingsSpace ==
    [api_core_url : BOOLEAN, jira : BOOLEAN, slack : BOOLEAN, sqlite : BOOLEAN]

InitStore ==
    /\ notification_events = {}
    /\ jira_tickets = <<>>
    /\ sess = [s \in Sessions |-> IdleSession]
    /\ create_issue_calls = [j \in Jobs |-> 0]
    /\ send_message_calls = [k \in Keys |-> 0]
    /\ storage_failures = 0

\* The deployments: everything configured, the Jira or the Slack credentials
\* missing, and config.py as shipped (nothing configured).
Deployments ==
    {c \in SettingsSpace :
        \/ c.api_core_url /\ (c.jira \/ c.slack)
        \/ ~c.api_core_url /\ ~c.jira /\ ~c.slack}

\* Requests arrive one after the other, on the default SQLite database; every
\* kind of bundle is submitted and every fault of the sinks happens.
Init ==
    /\ InitStore
    /\ settings \in {c \in Deployments : c.sqlite}
    /\ workload = [inflight |-> 1, bundle_kinds |-> BundleKinds \cup {"none"},
                   faults |-> TRUE, jobs |-> Jobs,
                   errors |-> SinkErrors, probes |-> {}]

\* Requests overlap, on either kind of database; the bundles are valid and a
\* sink call either succeeds or raises.
InitConcurrent ==
    /\ InitStore
    /\ settings \in {c \in SettingsSpace : c.jira /\ c.slack /\ c.api_core_url}
    /\ workload = [inflight |-> MaxSessions, bundle_kinds |-> {"valid"},
                   faults |-> FALSE, jobs |-> Jobs,
                   errors |-> SinkErrors, probes |-> {}]

\* The requests of one job and of its change, one after the other, with sinks
\* that raise messages of every length around the cap.
InitLongErrors ==
    /\ InitStore
    /\ settings \in {c \in Deployments : c.sqlite /\ c.jira /\ c.slack}
    /\ workload = [inflight |-> 1, bundle_kinds |-> {"valid"}, faults |-> TRUE,
                   jobs |-> {1}, errors |-> SinkErrors \cup LongErrors, probes |-> {}]

\* One pr_opened event out of the inputs of the validator, submitted (again and
\* again) to a deployment with everything configured.
InitValidator ==
    /\ InitStore
    /\ settings \in {c \in Deployments : c.sqlite /\ c.jira /\ c.slack}
    /\ \E e \in ValidatorInputs :
         workload = [inflight |-> 1, bundle_kinds |-> {}, faults |-> FALSE,
                     jobs |-> {1}, errors |-> SinkErrors, probes |-> {e}]

\* The pr_opened events of every job for one more change than the recovery
\* events are about, without a bundle.
LaterChangeEvents == {PROpenedEvent(MaxChange + 1, j, None) : j \in Jobs}

\* The jobs of two changes, with and without a bundle, one request after the
\* other to a deployment with everything configured.
InitKeys ==
    /\ InitStore
    /\ settings \in {c \in Deployments : c.sqlite /\ c.jira /\ c.slack}
    /\ workload = [inflight |-> 1, bundle_kinds |-> {"valid", "none"}, faults |-> FALSE,
                   jobs |-> Jobs, errors |-> SinkErrors, probes |-> LaterChangeEvents]

(* --------------------------------------------------------------- routes  *)
\* The session get_db hands to the next request: sessions are interchangeable.
FreeSession(s) ==
    /\ sess[s].pc = "idle"
    /\ \A t \in Sessions : t < s => sess[t].pc # "idle"

\* POST /webhooks/pr-opened
pr_opened_webhook(s) ==
    /\ FreeSession(s)
    /\ Cardinality(InFlight) < workload.inflight
    /\ \E e \in PrEvents(workload.bundle_kinds) \cup workload.probes :
         /\ e.job_id \in workload.jobs
         /\ sess' = [sess EXCEPT ![s] = [IdleSession EXCEPT !.pc = "lookup", !.event = Some(e)]]
    /\ UNCHANGED <<settings, notification_events, jira_tickets, create_issue_calls,
                   send_message_calls, storage_failures, workload>>

\* POST /webhooks/recovery-complete
recovery_complete_webhook(s) ==
    /\ FreeSession(s)
    /\ Cardinality(InFlight) < workload.inflight
    /\ \E e \in RcEvents :
         sess' = [sess EXCEPT ![s] = [IdleSession EXCEPT !.pc = "lookup", !.event = Some(e)]]
    /\ UNCHANGED <<settings, notification_events, jira_tickets, create_issue_calls,
                   send_message_calls, storage_failures, workload>>

\* get_db: the session closes when the request has been answered or has failed.
get_db_close(s) ==
    /\ sess[s].pc \in {"done", "aborted"}
    /\ sess' = [sess EXCEPT ![s] = IdleSession]
    /\ UNCHANGED <<settings, notification_events, jira_tickets, create_issue_calls,
                   send_message_calls, storage_failures, workload>>

(* ----------------------------------------------------------- claim step  *)
CommittedKeys == {r.idempotency_key : r \in notification_events}

\* The sessions that hold a flushed, uncommitted row for the key of session s.
PendingFor(s) ==
    {t \in Sessions \ {s} :
        /\ sess[t].record # None
        /\ sess[t].pc \in {"enrich", "jira", "slack", "commit"}
        /\ sess[t].record[1].idempotency_key = IdemKey(sess[s].event[1])}

\* The lookup letting an event through again when a sink had failed for it.
Lookup_RetriesFailures(s) ==
    /\ sess[s].pc = "lookup"
    /\ IF \E r \in notification_events :
             /\ r.idempotency_key = IdemKey(sess[s].event[1])
             /\ r.jira_error = None /\ r.slack_error = None
       THEN sess' = [sess EXCEPT ![s].pc = "done",
                        ![s].response = Some(WebhookResponse("already_processed",
                                                             None, None, None, <<>>))]
       ELSE sess' = [sess EXCEPT ![s].pc = "flush"]
    /\ UNCHANGED <<settings, notification_events, jira_tickets, create_issue_calls,
                   send_message_calls, storage_failures, workload>>

\* The short-circuit answering with the chat flag of the stored record.
Lookup_EchoesStoredRecord(s) ==
    /\ sess[s].pc = "lookup"
    /\ IF IdemKey(sess[s].event[1]) \in CommittedKeys
       THEN \E r \in notification_events :
              /\ r.idempotency_key = IdemKey(sess[s].event[1])
              /\ sess' = [sess EXCEPT ![s].pc = "done",
                            ![s].raced = PendingFor(s) # {},
                            ![s].response = Some(WebhookResponse("already_processed",
                                                     None, None, Some(r.slack_sent), <<>>))]
       ELSE sess' = [sess EXCEPT ![s].pc = "flush", ![s].raced = PendingFor(s) # {}]
    /\ UNCHANGED <<settings, notification_events, jira_tickets, create_issue_calls,
                   send_message_calls, storage_failures, workload>>

\* select(NotificationEvent).where(idempotency_key == idem_key): a session
\* reads committed rows (its own flushed rows come after the lookup).  raced
\* notes that another session's flushed row for the key was pending at the time.
Lookup(s) ==
    /\ sess[s].pc = "lookup"
    /\ IF IdemKey(sess[s].event[1]) \in CommittedKeys
       THEN sess' = [sess EXCEPT ![s].pc = "done",
                        ![s].raced = PendingFor(s) # {},
                        ![s].response = Some(WebhookResponse("already_processed",
                                                             None, None, None, <<>>))]
       ELSE sess' = [sess EXCEPT ![s].pc = "flush", ![s].raced = PendingFor(s) # {}]
    /\ UNCHANGED <<settings, notification_events, jira_tickets, create_issue_calls,
                   send_message_calls, storage_failures, workload>>

\* The sessions whose uncommitted writes make session s wait at its INSERT.
Blockers(s) ==
    {t \in Sessions \ {s} :
        /\ sess[t].record # None
        /\ sess[t].pc \in {"enrich", "jira", "slack", "commit"}
        /\ (settings.sqlite
            \/ sess[t].record[1].idempotency_key = IdemKey(sess[s].event[1]))}

\* The INSERT on a table without the unique index and without locks: it never fails.
Flush_NoUniqueIndex(s) ==
    /\ sess[s].pc = "flush"
    /\ sess' = [sess EXCEPT ![s].pc = "enrich",
                  ![s].record = Some(NotificationEvent(sess[s].event[1]))]
    /\ UNCHANGED <<settings, notification_events, jira_tickets, create_issue_calls,
                   send_message_calls, storage_failures, workload>>

\* db.add(record); await db.flush().  The INSERT fails on the unique index when
\* the key is committed, waits while another session holds the lock (or gives up:
\* busy timeout), and otherwise leaves the row pending in this session.
Flush(s) ==
    /\ sess[s].pc = "flush"
    /\ IF IdemKey(sess[s].event[1]) \in CommittedKeys
       THEN sess' = [sess EXCEPT ![s].pc = "aborted"]
       ELSE IF Blockers(s) # {}
       THEN sess' = [sess EXCEPT ![s].pc = "aborted"]
       ELSE sess' = [sess EXCEPT ![s].pc = "enrich",
                        ![s].record = Some(NotificationEvent(sess[s].event[1]))]
    /\ UNCHANGED <<settings, notification_events, jira_tickets, create_issue_calls,
                   send_message_calls, storage_failures, workload>>

(* ------------------------------------------------------------ enrichment *)
\* One outbound call, as the handler's session logs it.
Call(op, arg) == [op |-> op, arg |-> arg]

Unchanged_but_sess ==
    UNCHANGED <<settings, notification_events, jira_tickets, create_issue_calls,
                send_message_calls, storage_failures, workload>>

\* The tracking session created ahead of the claim step.
PrTrackingSession_BeforeFlush(s) ==
    /\ sess[s].pc = "flush"
    /\ sess[s].event[1].event_type = "pr_opened"
    /\ sess[s].calls = <<>>
    /\ settings.api_core_url
    /\ sess' = [sess EXCEPT ![s].calls =
                  Append(@, Call("create_session", sess[s].event[1].job_id))]
    /\ Unchanged_but_sess

\* The handler going from its enrichment straight to the chat branch.
PrTrackingSession_SkipsTicket(s) ==
    /\ sess[s].pc = "enrich"
    /\ sess[s].event[1].event_type = "pr_opened"
    /\ sess' = [sess EXCEPT ![s].pc = "slack"]
    /\ Unchanged_but_sess

\* handle_pr_opened: the tracking session on api-core, when api-core is
\* configured; whatever the call does is logged and dropped.  Then
\* validated_bundle = _validate_notification_bundle(event, event.notification_bundle).
PrTrackingSession(s) ==
    /\ sess[s].pc = "enrich"
    /\ sess[s].event[1].event_type = "pr_opened"
    /\ sess' = [sess EXCEPT ![s].pc = "jira",
                  ![s].validated_bundle =
                      _validate_notification_bundle(sess[s].event[1],
                                                    sess[s].event[1].notification_bundle),
                  ![s].calls = IF settings.api_core_url
                               THEN Append(@, Call("create_session", sess[s].event[1].job_id))
                               ELSE @]
    /\ Unchanged_but_sess

\* What billing.get_billing_summary() hands back: nothing (not configured, or
\* the request failed), a summary, or JSON of another shape.
BillingResults == {"unset", "unavailable", "summary", "malformed"}

\* What api_core.get_change_detail() hands back: nothing usable for the log of
\* impact sets (None, or a dict without impact sets), a well-formed detail, or
\* JSON of another shape.
ChangeDetailResults == {"unavailable", "detail", "malformed"}

\* handle_recovery_complete: change detail from api-core and the log of its
\* impact sets, then the billing summary.  Reading the impact sets of JSON of
\* another shape raises outside every try: the handler ends there.
RcEnrichment(s) ==
    /\ sess[s].pc = "enrich"
    /\ sess[s].event[1].event_type = "recovery_complete"
    /\ \/ \E b \in (IF workload.faults THEN BillingResults ELSE {"unset"}) :
            sess' = [sess EXCEPT ![s].pc = "jira",
                       ![s].billing_summary = IF b \in {"summary", "malformed"}
                                              THEN Some(b) ELSE None,
                       ![s].calls =
                           (IF settings.api_core_url
                            THEN Append(@, Call("get_change_detail", sess[s].event[1].change_id))
                            ELSE @)
                           \o (IF b = "unset" THEN <<>>
                               ELSE <<Call("get_billing_summary", None)>>)]
       \/ /\ workload.faults /\ settings.api_core_url
          /\ "malformed" \in ChangeDetailResults
          /\ sess' = [sess EXCEPT ![s] =
                        [IdleSession EXCEPT !.pc = "aborted", !.event = sess[s].event,
                            !.raced = sess[s].raced,
                            !.calls = Append(sess[s].calls,
                                Call("get_change_detail", sess[s].event[1].change_id))]]
    /\ Unchanged_but_sess

(* ------------------------------------------------------- content builders *)
\* build_issue_fields_from_notification_bundle(event, validated_bundle)
build_issue_fields_from_notification_bundle(event, bundle) ==
    [source |-> "bundle", description |-> bundle[1].jira.description_text,
     job_id |-> event.job_id]

\* The ticket link a chat message carries: both the key and the URL, or nothing.
Links(jira_issue_key, jira_issue_url) ==
    IF jira_issue_key # None /\ jira_issue_url # None
    THEN Some(<<jira_issue_key[1], jira_issue_url[1]>>)
    ELSE None

\* build_pr_notification_from_bundle(event, bundle, key, url)
build_pr_notification_from_bundle(event, bundle, jira_issue_key, jira_issue_url) ==
    [source |-> "bundle", text |-> bundle[1].slack.text, job_id |-> event.job_id,
     link |-> Links(jira_issue_key, jira_issue_url)]

\* build_pr_notification / build_pr_notification_text (event, key, url)
build_pr_notification(event, jira_issue_key, jira_issue_url) ==
    [source |-> "generated", text |-> <<>>, job_id |-> event.job_id,
     link |-> Links(jira_issue_key, jira_issue_url)]

\* The chat content taken from the bundle as submitted.
PrSlackBlocks_FromSubmittedBundle(event, validated_bundle, jira_issue_key, jira_issue_url) ==
    IF _has_devin_slack_content(event.notification_bundle)
    THEN build_pr_notification_from_bundle(event, event.notification_bundle,
                                           jira_issue_key, jira_issue_url)
    ELSE build_pr_notification(event, jira_issue_key, jira_issue_url)

\* blocks, fallback_text: from the validated bundle when it has chat content.
PrSlackBlocks(event, validated_bundle, jira_issue_key, jira_issue_url) ==
    IF _has_devin_slack_content(validated_bundle)
    THEN build_pr_notification_from_bundle(event, validated_bundle,
                                           jira_issue_key, jira_issue_url)
    ELSE build_pr_notification(event, jira_issue_key, jira_issue_url)

\* The chat content handle_pr_opened sends.
PrSlackContent(event, jira_issue_key, jira_issue_url) ==
    PrSlackBlocks(event,
                  _validate_notification_bundle(event, event.notification_bundle),
                  jira_issue_key, jira_issue_url)

\* build_recovery_comment / build_recovery_report (event, billing_summary)
build_recovery_report(event, billing_summary) ==
    [source |-> "generated", text |-> <<>>, change_id |-> event.change_id,
     billing |-> billing_summary]

\* Formatting a summary of another shape raises.
FormatError == Msg("format", 40)

(* ------------------------------------------------------------ ticket sink *)
\* The except clause of the ticket branch, also taking the sent flag back.
JiraFailed_ClearsSentFlag(r, msg) ==
    [r EXCEPT !.record = Some([@[1] EXCEPT !.jira_error = Some(Truncate(msg)),
                                           !.jira_sent = FALSE]),
              !.errors = Append(@, ErrorEntry("jira", None, msg))]

\* except Exception as exc: record.jira_error = str(exc)[:500]; errors.append(...)
JiraFailed(r, msg) ==
    [r EXCEPT !.record = Some([@[1] EXCEPT !.jira_error = Some(Truncate(msg))]),
              !.errors = Append(@, ErrorEntry("jira", None, msg))]

\* The ticket branch without its except clause: what it raises leaves the handler.
PrJiraBranch_Uncaught(s) ==
    /\ sess[s].pc = "jira"
    /\ sess[s].event[1].event_type = "pr_opened"
    /\ sess' = [sess EXCEPT ![s] =
                  [IdleSession EXCEPT !.pc = "aborted", !.event = sess[s].event,
                                      !.raced = sess[s].raced, !.calls = sess[s].calls]]
    /\ Unchanged_but_sess

\* handle_pr_opened: the ticket branch, from the content guard to jira.close().
PrJiraBranch(s) ==
    LET r == sess[s]
        event == r.event[1]
        validated_bundle == r.validated_bundle
        key == <<event.job_id, create_issue_calls[event.job_id] + 1>>
        created ==
            [r EXCEPT !.jira_issue_key = Some(key),
                      !.jira_issue_url = Some(browse_url(key)),
                      !.added = Append(@, JiraTicket(event.change_id, event.job_id,
                                                     key, browse_url(key))),
                      !.record = Some([@[1] EXCEPT !.jira_sent = TRUE]),
                      !.calls = Append(@, Call("create_issue",
                          build_issue_fields_from_notification_bundle(event, validated_bundle)))]
    IN
    /\ r.pc = "jira"
    /\ event.event_type = "pr_opened"
    /\ IF ~_has_devin_jira_content(validated_bundle)
       THEN /\ sess' = [sess EXCEPT ![s] =
                          [JiraFailed(r, _jira_bundle_error(event, validated_bundle))
                             EXCEPT !.pc = "slack"]]
            /\ UNCHANGED create_issue_calls
       ELSE IF ~settings.jira
       THEN /\ sess' = [sess EXCEPT ![s] =
                          [JiraFailed(r, JiraNotConfigured) EXCEPT !.pc = "slack"]]
            /\ UNCHANGED create_issue_calls
       ELSE /\ create_issue_calls' = [create_issue_calls EXCEPT ![event.job_id] = @ + 1]
            /\ \/ \E m \in workload.errors :
                    sess' = [sess EXCEPT ![s] =
                               [JiraFailed([r EXCEPT !.calls = created.calls], m)
                                  EXCEPT !.pc = "slack"]]
               \/ sess' = [sess EXCEPT ![s] = [created EXCEPT !.pc = "slack"]]
               \/ /\ workload.faults
                  /\ sess' = [sess EXCEPT ![s] =
                                [JiraFailed(created, CloseError) EXCEPT !.pc = "slack"]]
    /\ UNCHANGED <<settings, notification_events, jira_tickets, send_message_calls,
                   storage_failures, workload>>

\* select(JiraTicket).where(change_id == event.change_id): committed rows, in
\* row order.
TicketsFor(change_id) ==
    SelectSeq(jira_tickets, LAMBDA t : t.change_id = change_id)

\* The errors of the comment loop: one entry per ticket whose add_comment
\* raised (fails[i] is the exception of the i-th ticket, or None), in loop order.
RECURSIVE CommentErrors(_, _, _)
CommentErrors(tickets, fails, i) ==
    IF i > Len(tickets) THEN <<>>
    ELSE (IF fails[i] = None THEN <<>>
          ELSE <<ErrorEntry("jira_comment", Some(tickets[i].jira_issue_key), fails[i][1])>>)
         \o CommentErrors(tickets, fails, i + 1)

\* The comment loop given up after its first ticket.
CommentCalls_FirstTicketOnly(tickets, body) ==
    [i \in 1..1 |-> Call("add_comment", <<tickets[i].jira_issue_key, body>>)]

\* The add_comment calls of the loop, one per ticket.
CommentCalls(tickets, body) ==
    [i \in 1..Len(tickets) |-> Call("add_comment", <<tickets[i].jira_issue_key, body>>)]

\* The comment branch taking the lack of tickets for an error.
RcJiraBranch_NoTicketIsError(s) ==
    /\ sess[s].pc = "jira"
    /\ sess[s].event[1].event_type = "recovery_complete"
    /\ sess' = [sess EXCEPT ![s] =
                  [JiraFailed(sess[s], Msg("no tickets", 10)) EXCEPT !.pc = "slack"]]
    /\ Unchanged_but_sess

\* handle_recovery_complete: the ticket lookup and the comment branch.
RcJiraBranch(s) ==
    LET r == sess[s]
        event == r.event[1]
        tickets == TicketsFor(event.change_id)
        commented(fails) ==
            [r EXCEPT !.errors = @ \o CommentErrors(tickets, fails, 1),
                      !.calls = @ \o CommentCalls(tickets,
                                        build_recovery_report(event, r.billing_summary)),
                      !.record = Some([@[1] EXCEPT !.jira_sent = TRUE])]
    IN
    /\ r.pc = "jira"
    /\ event.event_type = "recovery_complete"
    /\ IF tickets = <<>>
       THEN sess' = [sess EXCEPT ![s].pc = "slack"]
       ELSE IF ~settings.jira
       THEN sess' = [sess EXCEPT ![s] =
                       [JiraFailed(r, JiraNotConfigured) EXCEPT !.pc = "slack"]]
       ELSE IF r.billing_summary = Some("malformed")
       THEN sess' = [sess EXCEPT ![s] =
                       [JiraFailed(r, FormatError) EXCEPT !.pc = "slack"]]
       ELSE \E fails \in [1..Len(tickets) -> {None} \cup {Some(m) : m \in workload.errors}] :
                 \/ sess' = [sess EXCEPT ![s] = [commented(fails) EXCEPT !.pc = "slack"]]
                 \/ /\ workload.faults
                    /\ sess' = [sess EXCEPT ![s] =
                                  [JiraFailed(commented(fails), CloseError)
                                     EXCEPT !.pc = "slack"]]
    /\ UNCHANGED <<settings, notification_events, jira_tickets, create_issue_calls,
                   send_message_calls, storage_failures, workload>>

(* -------------------------------------------------------------- chat sink *)
\* The chat error put at the head of the error list.
SlackFailed_ErrorFirst(r, msg) ==
    [r EXCEPT !.record = Some([@[1] EXCEPT !.slack_error = Some(Truncate(msg))]),
              !.errors = <<ErrorEntry("slack", None, msg)>> \o @]

\* except Exception as exc: record.slack_error = str(exc)[:500]; errors.append(...)
SlackFailed(r, msg) ==
    [r EXCEPT !.record = Some([@[1] EXCEPT !.slack_error = Some(Truncate(msg))]),
              !.errors = Append(@, ErrorEntry("slack", None, msg))]

\* SlackClient.send_message: one chat.postMessage, and a second one, text only,
\* when Slack answers invalid_blocks.
SendOutcomes == {"ok", "error", "retry_ok", "retry_error"}

\* The chat branch of either handler, from SlackClient() to slack.close().
SlackBranch(s, content, build_raises) ==
    LET r == sess[s]
        key == IdemKey(r.event[1])
        sent(o) ==
            [r EXCEPT !.calls = Append(@, Call("send_message",
                                  [content |-> content,
                                   posts |-> IF o \in {"ok", "error"} THEN 1 ELSE 2]))]
        delivered(o) == [sent(o) EXCEPT !.record = Some([@[1] EXCEPT !.slack_sent = TRUE])]
    IN
    /\ r.pc = "slack"
    /\ IF ~settings.slack
       THEN /\ sess' = [sess EXCEPT ![s] =
                          [SlackFailed(r, SlackNotConfigured) EXCEPT !.pc = "commit"]]
            /\ UNCHANGED send_message_calls
       ELSE IF build_raises
       THEN /\ sess' = [sess EXCEPT ![s] =
                          [SlackFailed(r, FormatError) EXCEPT !.pc = "commit"]]
            /\ UNCHANGED send_message_calls
       ELSE /\ send_message_calls' = [send_message_calls EXCEPT ![key] = @ + 1]
            /\ \E o \in (IF workload.faults THEN SendOutcomes ELSE {"ok", "error"}) :
                 IF o \in {"error", "retry_error"}
                 THEN \E m \in workload.errors :
                        sess' = [sess EXCEPT ![s] =
                                   [SlackFailed(sent(o), m) EXCEPT !.pc = "commit"]]
                 ELSE \/ sess' = [sess EXCEPT ![s] = [delivered(o) EXCEPT !.pc = "commit"]]
                      \/ /\ workload.faults
                         /\ sess' = [sess EXCEPT ![s] =
                                       [SlackFailed(delivered(o), CloseError)
                                          EXCEPT !.pc = "commit"]]
    /\ UNCHANGED <<settings, notification_events, jira_tickets, create_issue_calls,
                   storage_failures, workload>>

\* handle_pr_opened: the chat branch.
PrSlackBranch(s) ==
    /\ sess[s].pc = "slack"
    /\ sess[s].event[1].event_type = "pr_opened"
    /\ SlackBranch(s, PrSlackBlocks(sess[s].event[1], sess[s].validated_bundle,
                                    sess[s].jira_issue_key, sess[s].jira_issue_url),
                   FALSE)

\* handle_recovery_complete: the chat branch.
RcSlackBranch(s) ==
    /\ sess[s].pc = "slack"
    /\ sess[s].event[1].event_type = "recovery_complete"
    /\ SlackBranch(s, build_recovery_report(sess[s].event[1], sess[s].billing_summary),
                   sess[s].billing_summary = Some("malformed"))

(* ----------------------------------------------------------------- commit *)
\* The status with the chat flag alone deciding between partial and failed.
Status_ChatDecides(record, errors) ==
    IF errors = <<>> THEN "processed"
    ELSE IF record.slack_sent THEN "partial"
    ELSE "failed"

\* The status computed from the sent flags alone.
Status_SentFlagsDecide(record, errors) ==
    IF record.jira_sent /\ record.slack_sent THEN "processed"
    ELSE IF record.jira_sent \/ record.slack_sent THEN "partial"
    ELSE "failed"

\* status = "processed"; if errors: "partial" if either sent flag else "failed"
Status(record, errors) ==
    IF errors = <<>> THEN "processed"
    ELSE IF record.jira_sent \/ record.slack_sent THEN "partial"
    ELSE "failed"

\* The response a handler builds after its commit.
Response(r) ==
    WebhookResponse(Status(r.record[1], r.errors),
                    r.jira_issue_key, r.jira_issue_url,
                    Some(r.record[1].slack_sent), r.errors)

\* await db.commit(), then the response.  A commit the storage layer refuses
\* raises out of the handler and the session rolls back.
Commit(s) ==
    /\ sess[s].pc = "commit"
    /\ \/ /\ notification_events' = notification_events \cup {sess[s].record[1]}
          /\ jira_tickets' = jira_tickets \o sess[s].added
          /\ sess' = [sess EXCEPT ![s].pc = "done",
                        ![s].response = Some(Response(sess[s]))]
          /\ UNCHANGED storage_failures
       \/ /\ storage_failures < MaxStorageFailures
          /\ storage_failures' = storage_failures + 1
          /\ sess' = [sess EXCEPT ![s] =
                        [IdleSession EXCEPT !.pc = "aborted", !.event = sess[s].event,
                                            !.raced = sess[s].raced,
                                            !.calls = sess[s].calls]]
          /\ UNCHANGED <<notification_events, jira_tickets>>
    /\ UNCHANGED <<settings, create_issue_calls, send_message_calls, workload>>

Next ==
    \E s \in Sessions :
        \/ pr_opened_webhook(s)
        \/ recovery_complete_webhook(s)
        \/ Lookup(s)
        \/ Flush(s)
        \/ PrTrackingSession(s)
        \/ RcEnrichment(s)
        \/ PrJiraBranch(s)
        \/ RcJiraBranch(s)
        \/ PrSlackBranch(s)
        \/ RcSlackBranch(s)
        \/ Commit(s)
        \/ get_db_close(s)

Spec == Init /\ [][Next]_vars

SpecConcurrent == InitConcurrent /\ [][Next]_vars

SpecLongErrors == InitLongErrors /\ [][Next]_vars

SpecValidator == InitValidator /\ [][Next]_vars

SpecKeys == InitKeys /\ [][Next]_vars

(* ======================================================================= *)
(* Properties                                                              *)
(* ======================================================================= *)
Event(s) == sess[s].event[1]
KeyOf(s) == IdemKey(Event(s))
Done(s) == sess[s].pc = "done"
Resp(s) == sess[s].response[1]
IsPr(s) == sess[s].event # None /\ Event(s).event_type = "pr_opened"
IsRc(s) == sess[s].event # None /\ Event(s).event_type = "recovery_complete"

\* The calls of session s to operation op, in order.
CallsOf(s, op) == SelectSeq(sess[s].calls, LAMBDA c : c.op = op)

\* The calls of session s to the ticket and chat sinks.
SinkOps == {"create_issue", "add_comment", "send_message"}
SinkCallsOf(s) == SelectSeq(sess[s].calls, LAMBDA c : c.op \in SinkOps)

\* The error entries of session s for one sink.
ErrorsOf(s, sink) == SelectSeq(sess[s].errors, LAMBDA e : e.sink = sink)

\* The sink calls made for the key of session s by other, earlier executions.
EarlierDeliveries(s) ==
    (send_message_calls[KeyOf(s)] - Len(CallsOf(s, "send_message")))
    + (IF IsPr(s)
       THEN create_issue_calls[Event(s).job_id] - Len(CallsOf(s, "create_issue"))
       ELSE 0)

\* C1: in a sequence of sequential submissions with one idempotency key, only
\* the first performs external calls; a later one is short-circuited at its
\* lookup, answers already_processed and makes no external call.
C1_OnlyFirstSubmissionDelivers ==
    \A s \in Sessions :
        (sess[s].pc \notin {"idle", "lookup"} /\ EarlierDeliveries(s) > 0)
            => /\ Done(s)
               /\ Resp(s).status = "already_processed"
               /\ sess[s].calls = <<>>

\* C2: of two overlapping executions with one idempotency key (the second
\* looked the key up while the first held its flushed row), at most one makes
\* a call to a sink.
C2_AtMostOneDelivers ==
    \A s, t \in Sessions :
        (s # t /\ sess[s].event # None /\ sess[t].event # None
         /\ KeyOf(s) = KeyOf(t) /\ sess[t].raced)
            => (SinkCallsOf(s) = <<>> \/ SinkCallsOf(t) = <<>>)

\* C3: a lookup made while another session holds a flushed, uncommitted row
\* for the key sees that row: the request answers already_processed.
C3_RacingLookupSeesFlushedRow ==
    \A s \in Sessions :
        (sess[s].raced /\ sess[s].pc # "lookup")
            => (Done(s) /\ Resp(s).status = "already_processed")

\* C4: per idempotency key, over any sequence of submissions, aborted ones
\* included, the ticket is created at most once and the chat message is sent
\* at most once.
C4_FanOutAtMostOnce ==
    /\ \A j \in Jobs : create_issue_calls[j] <= 1
    /\ \A k \in Keys : send_message_calls[k] <= 1

\* C5: a handler makes an external call only while its Event Record is
\* inserted and flushed in its session.
C5_ClaimPrecedesCalls ==
    [][\A s \in Sessions :
          Len(sess'[s].calls) > Len(sess[s].calls) => sess[s].record # None]_vars

C5_Witness ==
    \E s \in Sessions :
        /\ sess[s].record # None
        /\ CallsOf(s, "create_session") # <<>>
        /\ CallsOf(s, "create_issue") # <<>>
        /\ CallsOf(s, "send_message") # <<>>

\* A request that passed the claim step and was answered.
Processed(s) == Done(s) /\ Resp(s).status # "already_processed"

\* The chat branch of session s ran: it called send_message or recorded an error.
ChatAttempted(s) == CallsOf(s, "send_message") # <<>> \/ ErrorsOf(s, "slack") # <<>>

\* The chat message of session s went out and the branch raised nothing.
ChatSentCleanly(s) ==
    /\ sess[s].record # None /\ sess[s].record[1].slack_sent
    /\ ErrorsOf(s, "slack") = <<>>

\* C6: in handle_pr_opened, when the ticket branch raises, at whatever step,
\* the chat send is still attempted, and when it succeeds the response is
\* partial, chat_sent true, without a ticket id, with the ticket error alone.
C6_TicketFailureIsolated ==
    \A s \in Sessions :
        (Processed(s) /\ IsPr(s) /\ ErrorsOf(s, "jira") # <<>>)
            => /\ ChatAttempted(s)
               /\ ChatSentCleanly(s)
                    => /\ Resp(s).status = "partial"
                       /\ Resp(s).slack_sent = Some(TRUE)
                       /\ Resp(s).jira_issue_key = None
                       /\ Len(Resp(s).errors) = 1
                       /\ Resp(s).errors[1].sink = "jira"

\* The ticket sink did what was asked: the ticket was created, or at least one
\* comment was added.
TicketSucceeded(s) ==
    IF IsPr(s) THEN CallsOf(s, "create_issue") # <<>> /\ sess[s].jira_issue_key # None
    ELSE Len(CallsOf(s, "add_comment")) > Len(ErrorsOf(s, "jira_comment"))

\* The chat message went out.
ChatSucceeded(s) == sess[s].record[1].slack_sent

\* C7: the status is processed iff no branch reported an error, failed iff the
\* ticket branch failed or was skipped and the chat branch failed, partial iff
\* a branch errored and the ticket or the chat sink succeeded.
C7_StatusAggregation ==
    \A s \in Sessions :
        Processed(s)
            => /\ Resp(s).status = "processed" <=> Resp(s).errors = <<>>
               /\ Resp(s).status = "failed"
                    <=> (~TicketSucceeded(s) /\ ~ChatSucceeded(s))
               /\ Resp(s).status = "partial"
                    <=> (Resp(s).errors # <<>>
                         /\ (TicketSucceeded(s) \/ ChatSucceeded(s)))

\* C8: a pr_opened event without a bundle, with a ticket sink that returns an
\* id and a chat send that succeeds, is answered processed with the ticket id,
\* chat_sent true and no error; the ticket is created once and linked.
C8_NoBundleIsProcessed ==
    \A s \in Sessions :
        (Processed(s) /\ IsPr(s) /\ Event(s).notification_bundle = None
         /\ settings.jira /\ ChatSentCleanly(s)
         /\ \A e \in DOMAIN sess[s].errors : sess[s].errors[e].msg \notin SinkErrors)
            => /\ Resp(s).status = "processed"
               /\ Resp(s).jira_issue_key # None
               /\ Resp(s).slack_sent = Some(TRUE)
               /\ Resp(s).errors = <<>>
               /\ Len(CallsOf(s, "create_issue")) = 1
               /\ \E i \in DOMAIN jira_tickets :
                    jira_tickets[i].job_id = Event(s).job_id

\* The validated bundle of the event of session s.
Validated(s) == _validate_notification_bundle(Event(s), Event(s).notification_bundle)

\* The validated bundle of session s gives no ticket content: there is none
\* (absent or rejected), or it has neither description text nor a structured
\* description.
UnusableForTicket(s) ==
    \/ Validated(s) = None
    \/ /\ Validated(s)[1].jira.description_text = <<>>
       /\ Validated(s)[1].jira.description_adf = None

\* The ticket branch of session s is over.
TicketBranchOver(s) == sess[s].pc \in {"slack", "commit"} \/ Processed(s)

TargetMismatch(event) ==
    /\ event.notification_bundle # None
    /\ _normalize_repo_url(Or(event.notification_bundle[1].assertions.target_repo,
                              event.target_repo))
         # _normalize_repo_url(event.target_repo)

\* The contents the bundle of a twin event may carry.
TwinContents == {<<>>, <<"c1">>, <<"c2">>}

\* The event with other ticket and chat content in its bundle.
Twin(event, description, text) ==
    [event EXCEPT !.notification_bundle =
        Some([@[1] EXCEPT !.jira.description_text = description, !.slack.text = text])]

\* The validation error of the ticket branch.
InvalidBundle == ErrorEntry("jira", None, Msg("invalid Devin-authored notification bundle", 42))

\* C10: a bundle whose asserted target repo differs from the event's target
\* repo has no influence on what goes out: there is no create_issue call, a
\* chat message carries the generated default content, the content and the
\* error are those of every twin event that differs in the bundle's content
\* only, and with the chat message sent the response is partial with the one
\* error 'invalid ... notification bundle' of the ticket sink.
C10_RejectedBundleHasNoInfluence ==
    \A s \in Sessions :
        (IsPr(s) /\ TargetMismatch(Event(s)))
            => /\ CallsOf(s, "create_issue") = <<>>
               /\ \A i \in DOMAIN CallsOf(s, "send_message") :
                    /\ CallsOf(s, "send_message")[i].arg.content
                         = build_pr_notification(Event(s), None, None)
                    /\ \A d, t \in TwinContents :
                         PrSlackContent(Twin(Event(s), d, t), None, None)
                            = CallsOf(s, "send_message")[i].arg.content
               /\ \A d, t \in TwinContents :
                    /\ _validate_notification_bundle(Twin(Event(s), d, t),
                            Twin(Event(s), d, t).notification_bundle) = None
                    /\ _jira_bundle_error(Twin(Event(s), d, t), None) = InvalidBundle.msg
               /\ TicketBranchOver(s)
                    => /\ sess[s].errors # <<>> /\ sess[s].errors[1] = InvalidBundle
                       /\ Len(ErrorsOf(s, "jira")) = 1
                       /\ sess[s].jira_issue_key = None
               /\ Processed(s)
                    => /\ Resp(s).jira_issue_key = None
                       /\ Resp(s).status
                            = IF sess[s].record[1].slack_sent THEN "partial" ELSE "failed"
                       /\ ChatSentCleanly(s)
                            => /\ Resp(s).status = "partial"
                               /\ Resp(s).errors = <<InvalidBundle>>
                               /\ Resp(s).slack_sent = Some(TRUE)

C10_Witness ==
    \E s \in Sessions :
        /\ Processed(s) /\ IsPr(s) /\ TargetMismatch(Event(s))
        /\ settings.jira
        /\ ChatSentCleanly(s)
        /\ Event(s).notification_bundle[1].jira.description_text # <<>>
        /\ Event(s).notification_bundle[1].slack.text # <<>>

\* The committed Event Record of the event of session s.
CommittedRecord(s) ==
    CHOOSE r \in notification_events : r.idempotency_key = KeyOf(s)

\* C11: in handle_pr_opened, when the ticket was created and the chat send
\* then fails, the ticket success stays: the committed Event Record has
\* jira_sent true, the Ticket Link Record is stored, the response carries the
\* ticket key and url, and the status is partial.
C11_TicketSuccessRetained ==
    \A s \in Sessions :
        (Processed(s) /\ IsPr(s) /\ sess[s].jira_issue_key # None
         /\ ErrorsOf(s, "slack") # <<>> /\ ~Resp(s).slack_sent[1])
            => /\ \E r \in notification_events : r.idempotency_key = KeyOf(s)
               /\ CommittedRecord(s).jira_sent
               /\ ~CommittedRecord(s).slack_sent
               /\ \E i \in DOMAIN jira_tickets :
                    /\ jira_tickets[i].job_id = Event(s).job_id
                    /\ jira_tickets[i].change_id = Event(s).change_id
                    /\ Some(jira_tickets[i].jira_issue_key) = sess[s].jira_issue_key
               /\ Resp(s).jira_issue_key = sess[s].jira_issue_key
               /\ Resp(s).jira_issue_url = Some(browse_url(sess[s].jira_issue_key[1]))
               /\ Resp(s).status = "partial"

C11_Witness ==
    \E s \in Sessions :
        /\ Processed(s) /\ IsPr(s) /\ sess[s].jira_issue_key # None
        /\ ErrorsOf(s, "jira") = <<>>
        /\ CallsOf(s, "send_message") # <<>>
        /\ ErrorsOf(s, "slack") # <<>> /\ ~Resp(s).slack_sent[1]

\* The Ticket Link Records of the change of session s.
TicketsOf(s) == TicketsFor(Event(s).change_id)

\* The add_comment calls of session s for one ticket.
CommentsOn(s, key) ==
    SelectSeq(sess[s].calls, LAMBDA c : c.op = "add_comment" /\ c.arg[1] = key)

\* C12: in handle_recovery_complete, with n Ticket Link Records for the change
\* and k failed comments, 1 <= k < n, every ticket got exactly one comment
\* call, the error list has exactly k 'jira_comment:<key>' entries, for
\* distinct tickets of the change, the chat branch ran, and the status is
\* partial.
C12_CommentFailuresAreIsolated ==
    \A s \in Sessions :
        (Processed(s) /\ IsRc(s)
         /\ Len(ErrorsOf(s, "jira_comment")) >= 1
         /\ Len(ErrorsOf(s, "jira_comment")) < Len(TicketsOf(s)))
            => /\ \A i \in DOMAIN TicketsOf(s) :
                    Len(CommentsOn(s, TicketsOf(s)[i].jira_issue_key)) = 1
               /\ Len(CallsOf(s, "add_comment")) = Len(TicketsOf(s))
               /\ \A e \in DOMAIN ErrorsOf(s, "jira_comment") :
                    /\ \E i \in DOMAIN TicketsOf(s) :
                         ErrorsOf(s, "jira_comment")[e].ticket
                            = Some(TicketsOf(s)[i].jira_issue_key)
                    /\ \A f \in DOMAIN ErrorsOf(s, "jira_comment") :
                         ErrorsOf(s, "jira_comment")[e].ticket
                            = ErrorsOf(s, "jira_comment")[f].ticket => e = f
               /\ ChatAttempted(s)
               /\ Resp(s).status = "partial"

C12_Witness ==
    \E s \in Sessions :
        /\ Processed(s) /\ IsRc(s)
        /\ Len(TicketsOf(s)) = 2
        /\ Len(ErrorsOf(s, "jira_comment")) = 1
        /\ Len(CallsOf(s, "add_comment")) = 2
        /\ sess[s].errors[1].ticket = Some(TicketsOf(s)[1].jira_issue_key)

\* C13: in handle_recovery_complete, with comments attempted, the Event Record
\* has jira_sent true iff at least one comment call succeeded, and with every
\* comment failed and the chat failed the status is failed.
C13_CommentBranchSuccess ==
    \A s \in Sessions :
        (Processed(s) /\ IsRc(s) /\ CallsOf(s, "add_comment") # <<>>)
            => /\ CommittedRecord(s).jira_sent
                    <=> Len(ErrorsOf(s, "jira_comment")) < Len(CallsOf(s, "add_comment"))
               /\ (Len(ErrorsOf(s, "jira_comment")) = Len(CallsOf(s, "add_comment"))
                   /\ ~CommittedRecord(s).slack_sent)
                    => Resp(s).status = "failed"

\* C14: whatever the enrichment calls hand back, the handler goes on from its
\* enrichment to the ticket branch, each configured sink is then called (the
\* comments when there are tickets, the chat message), and no error comes from
\* the enrichment data.
C14_EnrichmentNeverAffectsDelivery ==
    [][\A s \in Sessions :
          /\ (sess[s].pc = "enrich" /\ sess'[s] # sess[s]) => sess'[s].pc = "jira"
          /\ (sess[s].pc = "jira" /\ sess'[s].pc = "slack" /\ IsRc(s)
              /\ TicketsOf(s) # <<>> /\ settings.jira)
                => Len(sess'[s].calls) = Len(sess[s].calls) + Len(TicketsOf(s))
          /\ (sess[s].pc = "slack" /\ sess'[s].pc = "commit" /\ settings.slack)
                => Len(sess'[s].calls) = Len(sess[s].calls) + 1
          /\ \A e \in DOMAIN sess'[s].errors :
                sess'[s].errors[e].sink \in {"jira", "jira_comment", "slack"}
      ]_vars

\* The statuses of an event that was processed.
ProcessedStatuses == {"processed", "partial", "failed"}

\* The requests of one job and of its change, one after the other.
InitLive ==
    /\ InitStore
    /\ settings \in {c \in Deployments : c.sqlite}
    /\ workload = [inflight |-> 1, bundle_kinds |-> BundleKinds \cup {"none"},
                   faults |-> TRUE, jobs |-> {1},
                   errors |-> SinkErrors, probes |-> {}]

\* The steps of a handler from its ticket branch on.
Delivery ==
    \E s \in Sessions :
        \/ PrJiraBranch(s)
        \/ RcJiraBranch(s)
        \/ PrSlackBranch(s)
        \/ RcSlackBranch(s)
        \/ Commit(s)

\* Every client call of a handler is bounded by its client's timeout, so a
\* handler that can take a step of its delivery takes it.
SpecLive == InitLive /\ [][Next]_vars /\ WF_vars(Delivery)

\* C15: whatever its sinks do, a claimed event runs to completion: a step of
\* the ticket branch leads to the chat branch and a step of the chat branch to
\* the commit (no exception leaves a sink branch), the event is committed in
\* one step, after both branches, and answered processed, partial or failed;
\* and a handler in a sink branch does get to the end of its commit.
C15_RunsToCompletion ==
    /\ [][\A s \in Sessions :
            sess'[s] # sess[s] =>
              /\ sess[s].pc = "jira" => sess'[s].pc = "slack"
              /\ sess[s].pc = "slack" => sess'[s].pc = "commit"
              /\ sess'[s].pc = "commit" => sess[s].pc = "slack"
              /\ (sess'[s].pc = "done" /\ sess[s].pc # "lookup") =>
                    /\ sess[s].pc = "commit"
                    /\ KeyOf(s) \notin CommittedKeys
                    /\ notification_events' = notification_events \cup {sess[s].record[1]}
                    /\ sess'[s].response # None
                    /\ sess'[s].response[1].status \in ProcessedStatuses
                    /\ sess'[s].errors = sess[s].errors
       ]_vars
    /\ \A s \in Sessions :
          (sess[s].pc \in {"jira", "slack"}) ~> (sess[s].pc \in {"done", "aborted"})

C15_Witness ==
    \E s \in Sessions :
        /\ Processed(s)
        /\ Resp(s).status = "partial"
        /\ ErrorsOf(s, "jira") = <<ErrorEntry("jira", None, JiraNotConfigured)>>
        /\ ErrorsOf(s, "slack") = <<ErrorEntry("slack", None, CloseError)>>

TicketBranchSucceeded(s) ==
    CallsOf(s, "create_issue") # <<>> /\ ErrorsOf(s, "jira") = <<>>

\* C17: in handle_pr_opened, the chat content carries the link to the ticket
\* (key and url) iff the ticket branch succeeded; after a ticket branch that
\* failed or was skipped it carries none.
C17_CrossLinkIffTicketSucceeded ==
    \A s \in Sessions :
        (IsPr(s) /\ (sess[s].pc = "commit" \/ Processed(s))) =>
            \A i \in DOMAIN CallsOf(s, "send_message") :
                /\ CallsOf(s, "send_message")[i].arg.content.link # None
                     <=> TicketBranchSucceeded(s)
                /\ CallsOf(s, "send_message")[i].arg.content.link # None
                     => CallsOf(s, "send_message")[i].arg.content.link
                            = Some(<<sess[s].jira_issue_key[1],
                                     browse_url(sess[s].jira_issue_key[1])>>)

\* The state of the event of a session: Claimed 1, EnrichmentAttempted 2,
\* TicketAttempted 3, ChatAttempted 4, Committed 5; 0 before the claim and
\* for a request that was short-circuited or has ended in an exception.
StateOf(r) ==
    CASE r.pc = "enrich" -> 1
      [] r.pc = "jira" -> 2
      [] r.pc = "slack" -> 3
      [] r.pc = "commit" -> 4
      [] r.pc = "done" /\ r.record # None -> 5
      [] OTHER -> 0

\* The operations called in each state.
EnrichmentOps == {"create_session", "get_change_detail", "get_billing_summary"}
TicketOps == {"create_issue", "add_comment"}
ChatOps == {"send_message"}

\* The operations of the calls a step adds to the log of a session.
NewOps(before, after) ==
    {after.calls[i].op : i \in (Len(before.calls) + 1)..Len(after.calls)}

\* C18: an admitted event goes through Claimed, EnrichmentAttempted,
\* TicketAttempted, ChatAttempted, Committed one state at a time, in that
\* order (or ends in an exception); the enrichment calls are made between
\* Claimed and EnrichmentAttempted, the ticket calls between that and
\* TicketAttempted, the chat call between that and ChatAttempted, and the
\* commit, which makes no call, comes last and is the only step that stores.
C18_StatesInOrder ==
    [][\A s \in Sessions :
          sess'[s] # sess[s] =>
            /\ StateOf(sess[s]) \in 1..4
                  => /\ StateOf(sess'[s]) \in {StateOf(sess[s]) + 1, 0}
                     /\ StateOf(sess'[s]) = 0 => sess'[s].pc = "aborted"
            /\ StateOf(sess'[s]) # 0
                  => StateOf(sess'[s]) = StateOf(sess[s]) + 1
            /\ StateOf(sess'[s]) = 1 => sess[s].pc = "flush"
            /\ StateOf(sess[s]) = 1 => NewOps(sess[s], sess'[s]) \subseteq EnrichmentOps
            /\ StateOf(sess[s]) = 2 => NewOps(sess[s], sess'[s]) \subseteq TicketOps
            /\ StateOf(sess[s]) = 3 => NewOps(sess[s], sess'[s]) \subseteq ChatOps
            /\ StateOf(sess[s]) \notin {1, 2, 3} => NewOps(sess[s], sess'[s]) = {}
            /\ StateOf(sess'[s]) = 5
                  => IdemKey(sess'[s].event[1]) \in CommittedKeys' \ CommittedKeys
            /\ StateOf(sess'[s]) # 5 => /\ notification_events' = notification_events
                                        /\ jira_tickets' = jira_tickets
      ]_vars

C18_Witness ==
    \E s \in Sessions :
        /\ StateOf(sess[s]) = 5 /\ IsRc(s)
        /\ CallsOf(s, "get_change_detail") # <<>>
        /\ CallsOf(s, "get_billing_summary") # <<>>
        /\ Len(CallsOf(s, "add_comment")) = 2
        /\ CallsOf(s, "send_message") # <<>>
        /\ \E i, j, k \in DOMAIN sess[s].calls :
              /\ i < j /\ j < k
              /\ sess[s].calls[i].op \in EnrichmentOps
              /\ sess[s].calls[j].op \in TicketOps
              /\ sess[s].calls[k].op \in ChatOps

\* The text stored for an exception message: its first 500 characters.
StoredText(msg) == Some([text |-> msg.text, len |-> IF msg.len > 500 THEN 500 ELSE msg.len])

\* C19: an error text stored on an Event Record has at most 500 characters: it
\* is the first 500 characters of the exception message when that is longer,
\* and the whole message otherwise.
C19_StoredErrorsTruncated ==
    /\ \A r \in notification_events :
          /\ r.jira_error # None => r.jira_error[1].len <= 500
          /\ r.slack_error # None => r.slack_error[1].len <= 500
    /\ \A s \in Sessions :
          sess[s].record # None =>
            /\ ErrorsOf(s, "jira") # <<>>
                  => sess[s].record[1].jira_error
                        = StoredText(ErrorsOf(s, "jira")[Len(ErrorsOf(s, "jira"))].msg)
            /\ ErrorsOf(s, "slack") # <<>>
                  => sess[s].record[1].slack_error
                        = StoredText(ErrorsOf(s, "slack")[Len(ErrorsOf(s, "slack"))].msg)
            /\ Processed(s) => sess[s].record[1] \in notification_events

C19_Witness ==
    \E s \in Sessions :
        /\ Processed(s) /\ IsPr(s)
        /\ ErrorsOf(s, "jira") = <<ErrorEntry("jira", None, Msg("far above", 1200))>>
        /\ ErrorsOf(s, "slack") = <<ErrorEntry("slack", None, Msg("below", 499))>>
        /\ CommittedRecord(s).jira_error = Some(Msg("far above", 500))
        /\ CommittedRecord(s).slack_error = Some(Msg("below", 499))

\* C20: an event answered failed or partial is committed at that moment, a
\* committed Event Record stays as it is, and from then on a submission with
\* its key is answered already_processed at the lookup and makes no call: the
\* ticket-create and chat-send counts of a committed key never grow.
C20_SinkFailureIsTerminal ==
    [][/\ notification_events \subseteq notification_events'
       /\ \A k \in CommittedKeys :
             /\ send_message_calls'[k] = send_message_calls[k]
             /\ k[1] = "pr_opened" => create_issue_calls'[k[2]] = create_issue_calls[k[2]]
       /\ \A s \in Sessions :
             /\ (sess[s].pc = "commit" /\ sess'[s].pc = "done"
                 /\ sess'[s].response[1].status \in {"failed", "partial"})
                   => sess[s].record[1] \in notification_events'
             /\ (sess[s].pc = "lookup" /\ sess'[s] # sess[s]
                 /\ IdemKey(sess[s].event[1]) \in CommittedKeys)
                   => /\ sess'[s].pc = "done"
                      /\ sess'[s].response[1].status = "already_processed"
                      /\ sess'[s].calls = <<>>
             /\ (sess[s].event # None /\ IdemKey(sess[s].event[1]) \in CommittedKeys)
                   => sess'[s].calls = sess[s].calls \/ sess'[s].calls = <<>>
      ]_vars

C20_Witness ==
    \E s \in Sessions :
        /\ Done(s) /\ Resp(s).status = "already_processed"
        /\ IsPr(s)
        /\ CommittedRecord(s).jira_error # None
        /\ ~CommittedRecord(s).jira_sent
        /\ ~CommittedRecord(s).slack_sent
        /\ create_issue_calls[Event(s).job_id] = 1
        /\ send_message_calls[KeyOf(s)] = 1

\* The ticket branch of the session record r failed: it recorded an error.
TicketBranchFailed(r) ==
    \E e \in DOMAIN r.errors : r.errors[e].sink = "jira"

\* C21: a Ticket Link Record comes only from a successful ticket creation in
\* handle_pr_opened: a step that changes the stored records appends exactly one,
\* with the change id and the job id of the event and the key create_issue
\* returned, at the commit of a pr_opened event whose ticket branch succeeded;
\* the records already stored are never changed or removed, and a failed ticket
\* branch, a duplicate submission and handle_recovery_complete store none.
C21_TicketLinksOnlyFromCreation ==
    [][/\ Len(jira_tickets') >= Len(jira_tickets)
       /\ SubSeq(jira_tickets', 1, Len(jira_tickets)) = jira_tickets
       /\ jira_tickets' # jira_tickets
            => \E s \in Sessions :
                  /\ sess[s].pc = "commit" /\ sess'[s].pc = "done"
                  /\ IsPr(s)
                  /\ CallsOf(s, "create_issue") # <<>>
                  /\ sess[s].jira_issue_key # None
                  /\ ~TicketBranchFailed(sess[s])
                  /\ jira_tickets' = Append(jira_tickets,
                        [change_id |-> Event(s).change_id, job_id |-> Event(s).job_id,
                         jira_issue_key |-> sess[s].jira_issue_key[1],
                         jira_issue_url |-> browse_url(sess[s].jira_issue_key[1])])
       /\ \A s \in Sessions :
            (sess'[s] # sess[s]
             /\ (IsRc(s) \/ sess[s].pc = "lookup"
                 \/ (sess[s].record # None /\ TicketBranchFailed(sess[s]))))
               => jira_tickets' = jira_tickets
      ]_vars

\* Session s has just been answered already_processed.
ShortCircuited(s) ==
    /\ sess[s].pc = "lookup" /\ sess'[s].pc = "done"
    /\ sess'[s].response[1].status = "already_processed"

\* C22: a submission short-circuited as already_processed leaves the whole
\* store as it was (no Event Record inserted or changed, no Ticket Link Record
\* added), holds nothing to commit and has made no call, and its response has
\* no ticket id, no ticket url, no chat_sent value and an empty error list,
\* whatever the stored outcome of the original processing.
C22_ShortCircuitChangesNothing ==
    [][\A s \in Sessions :
          /\ (sess[s].pc = "lookup" /\ sess'[s] # sess[s]
              /\ \E r \in notification_events :
                    /\ r.event_type = sess[s].event[1].event_type
                    /\ r.idempotency_key = IdemKey(sess[s].event[1]))
                => ShortCircuited(s)
          /\ ShortCircuited(s)
                => /\ notification_events' = notification_events
                   /\ jira_tickets' = jira_tickets
                   /\ create_issue_calls' = create_issue_calls
                   /\ send_message_calls' = send_message_calls
                   /\ sess'[s].record = None /\ sess'[s].added = <<>>
                   /\ sess'[s].calls = <<>>
                   /\ sess'[s].response[1].jira_issue_key = None
                   /\ sess'[s].response[1].jira_issue_url = None
                   /\ sess'[s].response[1].slack_sent = None
                   /\ sess'[s].response[1].errors = <<>>
          /\ (Done(s) /\ Resp(s).status = "already_processed" /\ sess'[s] # sess[s])
                => /\ sess'[s].pc = "idle"
                   /\ notification_events' = notification_events
                   /\ jira_tickets' = jira_tickets
      ]_vars

C22_Witness ==
    \E s \in Sessions :
        /\ Done(s) /\ Resp(s).status = "already_processed" /\ IsPr(s)
        /\ CommittedRecord(s).jira_sent /\ CommittedRecord(s).slack_sent
        /\ CommittedRecord(s).slack_error # None
        /\ Len(jira_tickets) = 1
        /\ Resp(s).slack_sent = None /\ Resp(s).jira_issue_key = None

\* The position of the Ticket Link Record with the given key among the
\* records of the change of session s, or 0.
TicketIndex(s, key) ==
    IF \E i \in DOMAIN TicketsOf(s) : TicketsOf(s)[i].jira_issue_key = key
    THEN CHOOSE i \in DOMAIN TicketsOf(s) : TicketsOf(s)[i].jira_issue_key = key
    ELSE 0

\* C23: the error list is in the order the branches run: every entry of the
\* ticket sink ('jira', 'jira_comment') comes before the entry of the chat
\* sink; there is at most one 'jira' entry and at most one 'slack' entry; a
\* pr_opened event has no comment entry; the comment entries of a recovery
\* event name tickets of its change, in the order of the ticket lookup; every
\* entry is '<sink>: <message>' or 'jira_comment:<ticket id>: <message>'; and
\* the response carries the list as it stands.
C23_ErrorListOrdered ==
    \A s \in Sessions :
        LET errors == sess[s].errors IN
        /\ \A i \in DOMAIN errors : errors[i].sink = "slack" => i = Len(errors)
        /\ Len(ErrorsOf(s, "jira")) <= 1
        /\ Len(ErrorsOf(s, "slack")) <= 1
        /\ \A i \in DOMAIN errors :
              \/ errors[i].sink \in {"jira", "slack"} /\ errors[i].ticket = None
              \/ /\ errors[i].sink = "jira_comment" /\ errors[i].ticket # None
                 /\ IsRc(s)
                 /\ TicketIndex(s, errors[i].ticket[1]) > 0
        /\ \A i, j \in DOMAIN errors :
              (i < j /\ errors[i].sink = "jira_comment" /\ errors[j].sink = "jira_comment")
                 => TicketIndex(s, errors[i].ticket[1]) < TicketIndex(s, errors[j].ticket[1])
        /\ Processed(s) => Resp(s).errors = errors

C23_Witness ==
    \E s \in Sessions :
        /\ Processed(s) /\ IsRc(s)
        /\ Len(TicketsOf(s)) = 2
        /\ Len(Resp(s).errors) = 4
        /\ Resp(s).errors[1].sink = "jira_comment"
        /\ Resp(s).errors[2].sink = "jira_comment"
        /\ Resp(s).errors[3].sink = "jira"
        /\ Resp(s).errors[4].sink = "slack"
        /\ Resp(s).errors[1].ticket = Some(TicketsOf(s)[1].jira_issue_key)
        /\ Resp(s).errors[2].ticket = Some(TicketsOf(s)[2].jira_issue_key)

\* The validator has run in session s: validated_bundle holds its result.
ValidatorRan(s) == IsPr(s) /\ (sess[s].pc \in {"jira", "slack", "commit"} \/ Processed(s))

\* The six checks of a bundle b against the event e that carries it.
AuthorOk(b) == Lower(Strip(b.author)) \in {<<>>, <<"devin">>}
SourceRepoOk(e, b) ==
    _repo_name(Or(b.assertions.source_repo, e.source_repo)) = _repo_name(e.source_repo)
TargetRepoOk(e, b) ==
    _normalize_repo_url(Or(b.assertions.target_repo, e.target_repo))
        = _normalize_repo_url(e.target_repo)
TargetServiceOk(e, b) ==
    Strip(Or(b.assertions.target_service, e.target_service)) = Strip(e.target_service)
PrUrlOk(e, b) == Strip(Or(b.assertions.pr_url, e.pr_url)) = Strip(e.pr_url)
PrRepoOk(e) ==
    \/ _repo_from_pr_url(e.pr_url) = None
    \/ _normalize_repo_url(_repo_from_pr_url(e.pr_url)) = _normalize_repo_url(e.target_repo)

AllChecksPass(e, b) ==
    /\ AuthorOk(b) /\ SourceRepoOk(e, b) /\ TargetRepoOk(e, b)
    /\ TargetServiceOk(e, b) /\ PrUrlOk(e, b) /\ PrRepoOk(e)

\* C24: the validator hands back the bundle, unchanged, iff all six checks
\* pass, and None as soon as one of them fails; no bundle gives None.
C24_ValidatorAcceptsIffAllChecksPass ==
    \A s \in Sessions :
        ValidatorRan(s) =>
            LET e == Event(s) IN
            /\ e.notification_bundle = None => sess[s].validated_bundle = None
            /\ e.notification_bundle # None =>
                 /\ AllChecksPass(e, e.notification_bundle[1])
                      <=> sess[s].validated_bundle # None
                 /\ sess[s].validated_bundle # None
                      => sess[s].validated_bundle = e.notification_bundle

\* A bundle rejected for its asserted PR URL alone.
C24_Witness ==
    \E s \in Sessions :
        /\ ValidatorRan(s) /\ Event(s).notification_bundle # None
        /\ sess[s].validated_bundle = None
        /\ LET e == Event(s)
               b == e.notification_bundle[1]
           IN  /\ AuthorOk(b) /\ SourceRepoOk(e, b) /\ TargetRepoOk(e, b)
               /\ TargetServiceOk(e, b) /\ PrRepoOk(e)
               /\ b.assertions.pr_url = OtherPrUrl
               /\ b.author = <<" ", "Devin", " ">>

\* The event of session s carries a bundle that fails a check.
Rejected(s) ==
    /\ IsPr(s) /\ Event(s).notification_bundle # None
    /\ ~AllChecksPass(Event(s), Event(s).notification_bundle[1])

\* C25: a bundle that fails a check is discarded as a whole: create_issue is
\* not called, the ticket branch fails with 'invalid ... notification bundle'
\* as the first and only entry of the ticket sink, the chat send is still made,
\* once, with the generated default content and no ticket link, and the chat
\* branch records an error only when the send itself raised.
C25_RejectedBundleIsDiscarded ==
    \A s \in Sessions :
        Rejected(s) =>
            /\ CallsOf(s, "create_issue") = <<>>
            /\ TicketBranchOver(s)
                 => /\ sess[s].errors # <<>> /\ sess[s].errors[1] = InvalidBundle
                    /\ Len(ErrorsOf(s, "jira")) = 1
                    /\ sess[s].record[1].jira_error = Some(InvalidBundle.msg)
                    /\ ~sess[s].record[1].jira_sent
            /\ (sess[s].pc = "commit" \/ Processed(s))
                 => /\ Len(CallsOf(s, "send_message")) = 1
                    /\ CallsOf(s, "send_message")[1].arg.content
                         = [source |-> "generated", text |-> <<>>,
                            job_id |-> Event(s).job_id, link |-> None]
                    /\ sess[s].record[1].slack_sent
                         => (ErrorsOf(s, "slack") = <<>> /\ sess[s].errors = <<InvalidBundle>>)
                    /\ ~sess[s].record[1].slack_sent
                         => /\ Len(sess[s].errors) = 2
                            /\ sess[s].errors[2].sink = "slack"
                            /\ sess[s].errors[2].msg \in workload.errors
            /\ Processed(s)
                 => Resp(s).status = IF sess[s].record[1].slack_sent THEN "partial" ELSE "failed"

C25_Witness ==
    \E s \in Sessions :
        /\ Processed(s) /\ Rejected(s)
        /\ Event(s).notification_bundle[1].author = <<"alice">>
        /\ Event(s).notification_bundle[1].jira.description_text # <<>>
        /\ Event(s).notification_bundle[1].slack.text # <<>>
        /\ Event(s).notification_bundle[1].slack.blocks # <<>>
        /\ ChatSentCleanly(s)
        /\ Resp(s).status = "partial"
        /\ Resp(s).errors = <<InvalidBundle>>

\* The owner and the name of a repository given as an owner/name pair with or
\* without the host in front.
RepoOwner(repo) == repo[Len(repo) - 2]
RepoName(repo) == repo[Len(repo)]
IsOwnerNamePair(repo) ==
    /\ Len(repo) \in {3, 4} /\ repo[Len(repo) - 1] = "/"
    /\ Len(repo) = 4 => repo[1] = "https://github.com/"

\* a names the repository name of e under another owner.
SameNameOtherOwner(a, e) ==
    /\ IsOwnerNamePair(a) /\ IsOwnerNamePair(e)
    /\ RepoName(a) = RepoName(e) /\ RepoOwner(a) # RepoOwner(e)

\* C26: target repos are compared in full and source repos by name: a bundle
\* asserting the event's target repo name under another owner is rejected,
\* whatever else it says; a bundle asserting the event's source repo name
\* under another owner is accepted when its other checks pass.
C26_TargetInFullSourceByName ==
    \A s \in Sessions :
        (ValidatorRan(s) /\ Event(s).notification_bundle # None) =>
            LET e == Event(s)
                b == e.notification_bundle[1]
            IN  /\ SameNameOtherOwner(b.assertions.target_repo, e.target_repo)
                     => sess[s].validated_bundle = None
                /\ (/\ IsOwnerNamePair(e.source_repo)
                    /\ SameNameOtherOwner(b.assertions.source_repo, e.source_repo)
                    /\ AuthorOk(b) /\ TargetRepoOk(e, b) /\ TargetServiceOk(e, b)
                    /\ PrUrlOk(e, b) /\ PrRepoOk(e))
                     => sess[s].validated_bundle = e.notification_bundle

\* A bundle accepted with the source repo of another owner, and its ticket
\* created.
C26_Witness ==
    \E s \in Sessions :
        /\ Processed(s) /\ IsPr(s) /\ Event(s).notification_bundle # None
        /\ SameNameOtherOwner(Event(s).notification_bundle[1].assertions.source_repo,
                              Event(s).source_repo)
        /\ Event(s).notification_bundle[1].assertions.target_repo = Event(s).target_repo
        /\ sess[s].validated_bundle = Event(s).notification_bundle
        /\ CallsOf(s, "create_issue") # <<>>

\* The bundle b asserts nothing and is by no author or by devin.
AssertsNothing(b) ==
    /\ b.assertions.source_repo = <<>> /\ b.assertions.target_repo = <<>>
    /\ b.assertions.target_service = <<>> /\ b.assertions.pr_url = <<>>
    /\ b.author \in {<<>>, <<"devin">>}

\* C27: a left-out assertion passes its check: for every event, a bundle that
\* asserts nothing and is by no author or by devin can only fail the check of
\* the event's own PR URL against its target repo: it is accepted iff that
\* check passes.
C27_OmittedAssertionsPass ==
    \A s \in Sessions :
        (ValidatorRan(s) /\ Event(s).notification_bundle # None
         /\ AssertsNothing(Event(s).notification_bundle[1]))
            => /\ PrRepoOk(Event(s))
                    => sess[s].validated_bundle = Event(s).notification_bundle
               /\ sess[s].validated_bundle = None => ~PrRepoOk(Event(s))

C27_Witness ==
    \E s \in Sessions :
        /\ Processed(s) /\ IsPr(s) /\ Event(s).notification_bundle # None
        /\ AssertsNothing(Event(s).notification_bundle[1])
        /\ Event(s).source_repo = <<"api-core">>
        /\ Event(s).target_service = <<"billing", " ">>
        /\ sess[s].validated_bundle = Event(s).notification_bundle
        /\ CallsOf(s, "create_issue") # <<>>

\* The part of a URL after its host marker, when it has one.
HasHostMarker(url) == \E i \in DOMAIN url : url[i] \in HostTokens
AfterHost(url) ==
    LET h == CHOOSE i \in DOMAIN url :
                /\ url[i] \in HostTokens
                /\ \A j \in 1..(i - 1) : url[j] \notin HostTokens
    IN  SubSeq(url, h + 1, Len(url))

\* The positions of the "/" separators of a path: n separators, n + 1 segments.
Separators(path) == {i \in DOMAIN path : path[i] = "/"}

\* The URL names a repository: a host marker and two path segments or more.
NamesRepo(url) == HasHostMarker(url) /\ Separators(AfterHost(url)) # {}

\* The owner/name pair after the host marker, as a repository URL.
EmbeddedRepo(url) ==
    LET path == AfterHost(url)
        first == CHOOSE i \in Separators(path) : \A j \in Separators(path) : i <= j
        rest == SubSeq(path, first + 1, Len(path))
        last == IF Separators(rest) = {} THEN Len(rest)
                ELSE (CHOOSE i \in Separators(rest) : \A j \in Separators(rest) : i <= j) - 1
    IN  <<"https://github.com/">> \o SubSeq(path, 1, first - 1) \o <<"/">>
            \o SubSeq(rest, 1, last)

\* The bundle b asserts the fields of the event e as they are.
AssertsEventFields(e, b) ==
    /\ b.assertions.source_repo = e.source_repo
    /\ b.assertions.target_repo = e.target_repo
    /\ b.assertions.target_service = e.target_service
    /\ b.assertions.pr_url = e.pr_url

\* C28: when the event's own PR URL names a repository that is not the
\* event's target repo, every bundle is rejected, also one whose four
\* assertions are the event's own fields; when the PR URL names no repository
\* (no host marker, or fewer than two path segments after it) this check
\* passes: a bundle that passes the other five is accepted.
C28_EventPrUrlMustMatchTargetRepo ==
    \A s \in Sessions :
        (ValidatorRan(s) /\ Event(s).notification_bundle # None) =>
            LET e == Event(s)
                b == e.notification_bundle[1]
            IN  /\ (/\ NamesRepo(e.pr_url)
                    /\ _normalize_repo_url(EmbeddedRepo(e.pr_url))
                          # _normalize_repo_url(e.target_repo))
                     => sess[s].validated_bundle = None
                /\ (/\ ~NamesRepo(e.pr_url)
                    /\ AuthorOk(b) /\ SourceRepoOk(e, b) /\ TargetRepoOk(e, b)
                    /\ TargetServiceOk(e, b) /\ PrUrlOk(e, b))
                     => sess[s].validated_bundle = e.notification_bundle

C28_Witness ==
    \E s \in Sessions :
        /\ Processed(s) /\ IsPr(s) /\ Event(s).notification_bundle # None
        /\ Event(s).pr_url = OtherRepo \o <<"/", "pull", "/", "1">>
        /\ AssertsEventFields(Event(s), Event(s).notification_bundle[1])
        /\ Event(s).notification_bundle[1].author = <<"devin">>
        /\ sess[s].validated_bundle = None
        /\ Resp(s).errors # <<>> /\ Resp(s).errors[1] = InvalidBundle

\* The bundle of the event of session s passed validation and has chat content
\* (text or a block), ticket content (description text or document).
UsableForChat(s) ==
    /\ Event(s).notification_bundle # None
    /\ AllChecksPass(Event(s), Event(s).notification_bundle[1])
    /\ \/ Event(s).notification_bundle[1].slack.text # <<>>
       \/ Len(Event(s).notification_bundle[1].slack.blocks) >= 1

UsableForTicketContent(s) ==
    /\ Event(s).notification_bundle # None
    /\ AllChecksPass(Event(s), Event(s).notification_bundle[1])
    /\ \/ Event(s).notification_bundle[1].jira.description_text # <<>>
       \/ Event(s).notification_bundle[1].jira.description_adf # None

\* C29: in handle_pr_opened the chat message is built from the bundle iff the
\* bundle passed validation and has chat text or a content block, and is the
\* generated one in every other case; a ticket is built, from the bundle, only
\* if the bundle passed validation and has description content.
C29_ContentFromUsableBundleOnly ==
    \A s \in Sessions :
        (IsPr(s) /\ sess[s].pc # "aborted") =>
            /\ \A i \in DOMAIN CallsOf(s, "send_message") :
                  LET content == CallsOf(s, "send_message")[i].arg.content IN
                  /\ content.source = "bundle" <=> UsableForChat(s)
                  /\ content.source = "bundle"
                        => content.text = Event(s).notification_bundle[1].slack.text
                  /\ content.source # "bundle"
                        => content = [source |-> "generated", text |-> <<>>,
                                      job_id |-> Event(s).job_id,
                                      link |-> Links(sess[s].jira_issue_key,
                                                     sess[s].jira_issue_url)]
            /\ \A i \in DOMAIN CallsOf(s, "create_issue") :
                  /\ UsableForTicketContent(s)
                  /\ CallsOf(s, "create_issue")[i].arg.source = "bundle"
                  /\ CallsOf(s, "create_issue")[i].arg.description
                        = Event(s).notification_bundle[1].jira.description_text

C29_Witness ==
    \E s \in Sessions :
        /\ Processed(s) /\ IsPr(s) /\ UsableForChat(s)
        /\ Event(s).notification_bundle[1].slack.text = <<>>
        /\ Event(s).notification_bundle[1].jira.description_text = <<>>
        /\ CallsOf(s, "create_issue") # <<>>
        /\ Len(CallsOf(s, "send_message")) = 1
        /\ CallsOf(s, "send_message")[1].arg.content.source = "bundle"

\* The stored record r is of the type of the event e and has its correlating
\* id: the job id for pr_opened, the change id for recovery_complete.
Correlates(r, e) ==
    /\ r.event_type = e.event_type
    /\ IF e.event_type = "pr_opened" THEN r.job_id = e.job_id
       ELSE r.change_id = e.change_id

\* C30: admission looks at the type of the event and its correlating id and at
\* nothing else: an event is answered already_processed at its lookup when a
\* record of its type with its correlating id is stored, whatever the change
\* id and the content of the pr_opened event that stored it, and is admitted
\* when none is, whatever other records are stored (other jobs of the change,
\* a pr_opened event whose job id is the change id of a recovery event).
C30_KeyIsTypeAndCorrelatingId ==
    [][\A s \in Sessions :
          (sess[s].pc = "lookup" /\ sess'[s] # sess[s]) =>
              IF \E r \in notification_events : Correlates(r, sess[s].event[1])
              THEN /\ sess'[s].pc = "done"
                   /\ sess'[s].response[1].status = "already_processed"
              ELSE sess'[s].pc = "flush"
      ]_vars

C30_Witness ==
    \E s \in Sessions :
        /\ Done(s) /\ Resp(s).status = "already_processed" /\ IsPr(s)
        /\ Event(s).job_id = 1 /\ Event(s).change_id = 1
        /\ Event(s).notification_bundle # None
        /\ \E r \in notification_events :
              /\ r.event_type = "pr_opened" /\ r.job_id = 1 /\ r.change_id = MaxChange + 1
        /\ \E r \in notification_events :
              /\ r.event_type = "pr_opened" /\ r.job_id = 2 /\ r.change_id = MaxChange + 1
        /\ \E r \in notification_events :
              /\ r.event_type = "recovery_complete" /\ r.change_id = 1
        /\ Cardinality(notification_events) = 3

\* C31: there is no automatic retry: for an admitted event the handler makes at
\* most one ticket-create request, at most one comment request per ticket and
\* at most one chat post, and a request the sink answers with an error is not
\* followed by a second request to that sink.
C31_NoAutomaticRetry ==
    \A s \in Sessions :
        /\ Len(CallsOf(s, "create_issue")) <= 1
        /\ \A i \in DOMAIN CallsOf(s, "add_comment") :
              Len(CommentsOn(s, CallsOf(s, "add_comment")[i].arg[1])) = 1
        /\ Len(CallsOf(s, "send_message")) <= 1
        /\ \A i \in DOMAIN CallsOf(s, "send_message") :
              CallsOf(s, "send_message")[i].arg.posts = 1

\* The response of session s lists an error of one of the given sinks.
ResponseNames(s, sinks) == \E i \in DOMAIN Resp(s).errors : Resp(s).errors[i].sink \in sinks

\* C32: every sink failure is recorded on the Event Record: when the response's
\* error list has an entry for the ticket sink (ticket create or a ticket
\* comment) the committed record has a non-null ticketing error, and when it
\* has a chat entry the committed record has a non-null chat error.
C32_SinkFailuresAreStored ==
    \A s \in Sessions :
        Processed(s) =>
            /\ ResponseNames(s, {"jira", "jira_comment"}) => CommittedRecord(s).jira_error # None
            /\ ResponseNames(s, {"slack"}) => CommittedRecord(s).slack_error # None

\* C34: in every committed Event Record the sent flag and the stored error of a
\* sink exclude each other (ticketing-sent implies no ticketing error, chat-sent
\* implies no chat error), and a response with a "jira: ..." or "slack: ..."
\* error does not report that sink as sent, also when a step after the
\* successful sink call, such as closing the client, raises.
C34_SentExcludesError ==
    /\ \A r \in notification_events :
          /\ r.jira_sent => r.jira_error = None
          /\ r.slack_sent => r.slack_error = None
    /\ \A s \in Sessions :
          Processed(s) =>
              /\ ResponseNames(s, {"jira"}) => ~CommittedRecord(s).jira_sent
              /\ ResponseNames(s, {"slack"}) => Resp(s).slack_sent # Some(TRUE)

\* The tickets created at the sink for change c by handle_pr_opened executions
\* that have not committed yet.
InFlightTicketKeys(c) ==
    {sess[t].jira_issue_key[1] :
        t \in {u \in Sessions : /\ sess[u].event # None
                                /\ sess[u].event[1].event_type = "pr_opened"
                                /\ sess[u].event[1].change_id = c
                                /\ sess[u].pc \in {"slack", "commit"}
                                /\ sess[u].jira_issue_key # None}}

\* The tickets of change c whose Ticket Link Record is committed.
CommittedTicketKeys(c) == {TicketsFor(c)[i].jira_issue_key : i \in DOMAIN TicketsFor(c)}

\* The tickets a sequence of calls comments on.
CommentedKeys(calls) == {calls[i].arg[1] : i \in {j \in DOMAIN calls : calls[j].op = "add_comment"}}

\* Session s of handle_recovery_complete performs its ticket lookup and comment loop.
RcLookupStep(s) ==
    /\ sess[s].pc = "jira"
    /\ sess[s].event # None
    /\ sess[s].event[1].event_type = "recovery_complete"
    /\ sess'[s].pc = "slack"

\* C33: every ticket created for a change gets a resolution-comment attempt when
\* the change's recovery_complete event is processed, under every interleaving:
\* also a ticket created by a handle_pr_opened execution that is still in flight
\* (created at the sink, Ticket Link Record not yet committed) while
\* handle_recovery_complete performs its ticket lookup.
C33_EveryCreatedTicketIsCommented ==
    [][\A s \in Sessions :
          RcLookupStep(s) =>
              (CommittedTicketKeys(sess[s].event[1].change_id)
                 \cup InFlightTicketKeys(sess[s].event[1].change_id))
                     \subseteq CommentedKeys(sess'[s].calls)]_vars

\* A Ticket Link Record for the job of session s is stored.
TicketLinkStored(s) == \E i \in DOMAIN jira_tickets : jira_tickets[i].job_id = Event(s).job_id

\* C35: after handle_pr_opened commits, the three views of ticket success
\* agree: the response carries a ticket id if and only if the Event Record's
\* jira_sent flag is true if and only if a Ticket Link Record for the event's
\* job id is stored, at whatever point the ticket branch failed.
C35_TicketViewsAgree ==
    \A s \in Sessions :
        (Processed(s) /\ IsPr(s)) =>
            /\ (Resp(s).jira_issue_key # None) <=> CommittedRecord(s).jira_sent
            /\ CommittedRecord(s).jira_sent <=> TicketLinkStored(s)

\* A committed pr_opened event whose ticket was created and whose ticket branch
\* then failed, after the event of the other job was committed with a create
\* call that failed.
C35_Witness ==
    \E s \in Sessions :
        /\ Processed(s) /\ IsPr(s)
        /\ CallsOf(s, "create_issue") # <<>>
        /\ ErrorsOf(s, "jira") # <<>>
        /\ TicketLinkStored(s)
        /\ \E r \in notification_events :
              /\ r.event_type = "pr_opened" /\ r.job_id # Event(s).job_id
              /\ ~r.jira_sent /\ r.jira_error # None
              /\ \A i \in DOMAIN jira_tickets : jira_tickets[i].job_id # r.job_id

\* C36: in every reachable state of the store there is at most one Ticket Link
\* Record per job id, and a Ticket Link Record for job j exists only if an Event
\* Record with key pr_opened:<j> exists with its jira_sent flag true.
C36_OneTicketLinkPerJob ==
    /\ \A i, j \in DOMAIN jira_tickets :
          jira_tickets[i].job_id = jira_tickets[j].job_id => i = j
    /\ \A i \in DOMAIN jira_tickets :
          \E r \in notification_events :
              /\ r.idempotency_key = <<"pr_opened", jira_tickets[i].job_id>>
              /\ r.jira_sent

\* A second delivery for a job whose Ticket Link Record is stored was refused at
\* its INSERT after passing the lookup, while the other job has its record too.
C36_Witness ==
    /\ Len(jira_tickets) = MaxJob
    /\ \E s \in Sessions :
          /\ sess[s].pc = "aborted"
          /\ IsPr(s)
          /\ CallsOf(s, "create_issue") = <<>>
          /\ TicketLinkStored(s)

\* C37: when handle_pr_opened returns status processed, the ticket create call
\* and the chat send call were each made exactly once and succeeded, the
\* response has a ticket id and chat_sent true, and both sent flags of the
\* committed Event Record are true; processed is never returned with chat_sent
\* false or without a ticket id.
C37_ProcessedCertifiesDelivery ==
    \A s \in Sessions :
        (Done(s) /\ IsPr(s) /\ Resp(s).status = "processed") =>
            /\ Len(CallsOf(s, "create_issue")) = 1
            /\ Len(CallsOf(s, "send_message")) = 1
            /\ Resp(s).errors = <<>>
            /\ Resp(s).jira_issue_key # None
            /\ Resp(s).slack_sent = Some(TRUE)
            /\ CommittedRecord(s).jira_sent /\ CommittedRecord(s).jira_error = None
            /\ CommittedRecord(s).slack_sent /\ CommittedRecord(s).slack_error = None

\* A pr_opened event answered processed, after the event of the other job was
\* committed with both sent flags true and an error stored.
C37_Witness ==
    \E s \in Sessions :
        /\ Done(s) /\ IsPr(s) /\ Resp(s).status = "processed"
        /\ \E r \in notification_events :
              /\ r.event_type = "pr_opened" /\ r.job_id # Event(s).job_id
              /\ r.jira_sent /\ r.slack_sent
              /\ (r.jira_error # None \/ r.slack_error # None)

====
